---- MODULE Spec2Model ----
(***************************************************************************)
(* Model of the validation engine (shared/src/validation/index.ts) and of  *)
(* the PDF export pipeline (exportIncidentToPDF, the generate route) of    *)
(* the incident reporter.                                                  *)
(*                                                                         *)
(* Conventions.  An optional JavaScript value is a sequence of length 0    *)
(* (undefined) or 1 (the value).  A string the code trims, measures or     *)
(* matches against a regular expression is a sequence of one-character     *)
(* strings; an enumeration value (category, severity, ...) is a TLA+       *)
(* string.  A function that can raise a TypeError returns a record with a  *)
(* threw flag.  Instants are integers (clock ticks).                       *)
(***************************************************************************)
EXTENDS Integers, Sequences, FiniteSets, TLC

VARIABLES
    incident,      \* the IncidentReport handed to the core
    options,       \* the PdfExportOptions handed to the core
    now,           \* the ambient clock read by new Date()
    prev,          \* the call before the last one (validate / validateForExport)
    last,          \* the last call and what it returned
    pc,            \* position of the export in exportIncidentToPDF / POST
    caller,        \* "direct" (exportIncidentToPDF) or "route" (POST)
    outputPath,    \* optional third argument of exportIncidentToPDF
    validation,    \* the local const validation of exportIncidentToPDF
    pdfModel,      \* the local const pdfModel
    doc,           \* the local const doc
    artifact,      \* what the sink holds: nothing, a buffer or a file
    exportResult,  \* the PdfExportResult exportIncidentToPDF resolved to
    response,      \* the NextResponse POST returned
    trace,         \* the steps of the export executed so far, in order
    body,          \* the JSON body of the request to POST
    store,         \* the state of the incident store (useIncidentStore)
    storage,       \* the incidents kept by AsyncStorage under '@incidents'
    calls          \* the asynchronous operations of the store, started so far

vars == <<incident, options, now, prev, last, pc, caller, outputPath,
          validation, pdfModel, doc, artifact, exportResult, response, trace, body,
          store, storage, calls>>

(***************************************************************************)
(* Bounds of the model.                                                    *)
(***************************************************************************)
MaxNow == 2
TicksPerDay == 2
MaxActions == 2
MaxAttachments == 2
MaxRows == 4
MaxCalls == 2

(***************************************************************************)
(* JavaScript values.                                                      *)
(***************************************************************************)
Absent == <<>>
Some(v) == <<v>>
Has(x) == x # Absent
Get(x) == x[1]

\* obj?.field
Opt(obj, f) == IF obj = Absent THEN Absent ELSE Get(obj)[f]

\* !s for an optional string: undefined or ''
StrFalsy(s) == s = Absent \/ Get(s) = <<>>

Digits == {"0", "1", "2", "3", "4", "5", "6", "7", "8", "9"}
Letters == {"a", "b", "c", "d", "e", "f", "g", "h", "i", "j", "k", "l", "m",
            "n", "o", "p", "q", "r", "s", "t", "u", "v", "w", "x", "y", "z",
            "A", "B", "C", "D", "E", "F", "G", "H", "I", "J", "K", "L", "M",
            "N", "O", "P", "Q", "R", "S", "T", "U", "V", "W", "X", "Y", "Z"}
IsSpace(c) == c = " "

RECURSIVE TrimLeft(_)
TrimLeft(s) == IF s # <<>> /\ IsSpace(Head(s)) THEN TrimLeft(Tail(s)) ELSE s

RECURSIVE TrimRight(_)
TrimRight(s) ==
    IF s # <<>> /\ IsSpace(s[Len(s)]) THEN TrimRight(SubSeq(s, 1, Len(s) - 1)) ELSE s

\* String.prototype.trim
Trim(s) == TrimRight(TrimLeft(s))

\* s.replace(/\s/g, '')
StripSpaces(s) == SelectSeq(s, LAMBDA c : ~IsSpace(c))

\* !s || s.trim() === ''
MissingOrBlank(s) == StrFalsy(s) \/ Trim(Get(s)) = <<>>

\* /^([01]?[0-9]|2[0-3]):[0-5][0-9]$/
timeRegex(s) ==
    \/ /\ Len(s) = 5
       /\ \/ s[1] \in {"0", "1"} /\ s[2] \in Digits
          \/ s[1] = "2" /\ s[2] \in {"0", "1", "2", "3"}
       /\ s[3] = ":"
       /\ s[4] \in {"0", "1", "2", "3", "4", "5"}
       /\ s[5] \in Digits
    \/ /\ Len(s) = 4
       /\ s[1] \in Digits
       /\ s[2] = ":"
       /\ s[3] \in {"0", "1", "2", "3", "4", "5"}
       /\ s[4] \in Digits

\* /^[A-Z]{2}[0-9]{2}\s?[A-Z]{3}$|^[A-Z][0-9]{1,3}\s?[A-Z]{3}$/i
ukRegRegex(s) ==
    LET n == Len(s)
        L(i) == s[i] \in Letters
        D(i) == s[i] \in Digits
        Sp(i) == IsSpace(s[i])
    IN  \/ n = 7 /\ L(1) /\ L(2) /\ D(3) /\ D(4) /\ L(5) /\ L(6) /\ L(7)
        \/ n = 8 /\ L(1) /\ L(2) /\ D(3) /\ D(4) /\ Sp(5) /\ L(6) /\ L(7) /\ L(8)
        \/ \E k \in 1..3 :
              /\ n \in {k + 4, k + 5}
              /\ L(1)
              /\ \A i \in 2..(k + 1) : D(i)
              /\ n = k + 5 => Sp(k + 2)
              /\ \A i \in (n - 2)..n : L(i)

\* /^[^\s@]+@[^\s@]+\.[^\s@]+$/
isValidEmail(s) ==
    \E i \in 1..Len(s), j \in 1..Len(s) :
        /\ s[i] = "@"
        /\ s[j] = "."
        /\ 1 < i
        /\ i + 1 < j
        /\ j < Len(s)
        /\ \A k \in (1..Len(s)) \ {i} : ~IsSpace(s[k]) /\ s[k] # "@"

\* /^(\+44|0)[0-9\s]{10,13}$/ on phone.replace(/\s/g, '')
isValidUKPhone(phone) ==
    LET s == StripSpaces(phone)
        Rest(k) == /\ Len(s) - k \in 10..13
                   /\ \A i \in (k + 1)..Len(s) : s[i] \in Digits
    IN  \/ Len(s) >= 1 /\ s[1] = "0" /\ Rest(1)
        \/ Len(s) >= 3 /\ s[1] = "+" /\ s[2] = "4" /\ s[3] = "4" /\ Rest(3)

(***************************************************************************)
(* Dates.  A date string is modelled by what new Date(string) makes of it: *)
(* text "iso" parses to the instant, any other non-empty text to an        *)
(* Invalid Date (NaN), and text "empty" is the empty string.               *)
(***************************************************************************)
IsoDate(t) == [text |-> "iso", instant |-> t]
GarbageDate == [text |-> "garbage", instant |-> 0]
EmptyDate == [text |-> "empty", instant |-> 0]

\* new Date(s).getTime()
ParseDate(s) == [nan |-> s.text # "iso", t |-> s.instant]

\* variant: >= in place of >
DateAfter_OrEqual(a, b) == ~a.nan /\ ~b.nan /\ a.t >= b.t

\* a > b on Dates: false when either is NaN
DateAfter(a, b) == ~a.nan /\ ~b.nan /\ a.t > b.t

\* variant: today left at the instant of the call, without setHours
EndOfToday_NoSetHours(clock) == [nan |-> FALSE, t |-> clock]

\* const today = new Date(); today.setHours(23, 59, 59, 999)
EndOfToday(clock) ==
    [nan |-> FALSE, t |-> (clock \div TicksPerDay) * TicksPerDay + TicksPerDay - 1]

(***************************************************************************)
(* Validation findings.                                                    *)
(***************************************************************************)
VErr(f, m, s) == [field |-> f, message |-> m, section |-> s]

Returned(errs) == [threw |-> FALSE, errors |-> errs]
TypeError == [threw |-> TRUE, errors |-> <<>>]

When(cond, err) == IF cond THEN <<err>> ELSE <<>>

(***************************************************************************)
(* validateBasicInfo: required for all categories.  incident.location is   *)
(* dereferenced without ?. (line 71), so an absent location raises.        *)
(***************************************************************************)
validateBasicInfo(inc, clock) ==
    LET whatHappened == Opt(inc.incidentDescription, "whatHappened")
        name == Opt(inc.reportedBy, "name")
        categoryErrs ==
            When(~Has(inc.category),
                 VErr("category", "Incident category is required", "Basic Information"))
        dateErrs ==
            IF ~Has(inc.dateOfIncident) \/ Get(inc.dateOfIncident).text = "empty"
            THEN <<VErr("dateOfIncident", "Date of incident is required",
                        "Basic Information")>>
            ELSE When(DateAfter(ParseDate(Get(inc.dateOfIncident)), EndOfToday(clock)),
                      VErr("dateOfIncident", "Incident date cannot be in the future",
                           "Basic Information"))
        timeErrs ==
            IF StrFalsy(inc.timeOfIncident)
            THEN <<VErr("timeOfIncident", "Time of incident is required",
                        "Basic Information")>>
            ELSE When(~timeRegex(Get(inc.timeOfIncident)),
                      VErr("timeOfIncident", "Time must be in HH:mm format (24-hour)",
                           "Basic Information"))
        locationErrs ==
            When(/\ ~Has(Get(inc.location).gpsCoordinates)
                 /\ StrFalsy(Get(inc.location).manualAddress),
                 VErr("location", "Location is required (GPS or manual address)",
                      "Basic Information"))
        descriptionErrs ==
            IF MissingOrBlank(whatHappened)
            THEN <<VErr("incidentDescription.whatHappened",
                        "Incident description is required", "Incident Description")>>
            ELSE When(Len(Get(whatHappened)) < 20,
                      VErr("incidentDescription.whatHappened",
                           "Incident description must be at least 20 characters",
                           "Incident Description"))
        reporterErrs ==
            When(MissingOrBlank(name),
                 VErr("reportedBy.name", "Reporter name is required", "Basic Information"))
    IN  IF ~Has(inc.location)
        THEN TypeError
        ELSE Returned(categoryErrs \o dateErrs \o timeErrs \o locationErrs
                      \o descriptionErrs \o reporterErrs)

validatePersonalInjury(inc) ==
    LET injury == inc.injuryDetails
        bodyParts == Opt(injury, "bodyPartsAffected")
    IN  When(MissingOrBlank(Opt(inc.personInvolved, "fullName")),
             VErr("personInvolved.fullName", "Injured person's name is required",
                  "Person Involved"))
        \o When(MissingOrBlank(Opt(injury, "natureOfInjury")),
                VErr("injuryDetails.natureOfInjury", "Nature of injury is required",
                     "Injury Details"))
        \o When(~Has(Opt(injury, "severity")),
                VErr("injuryDetails.severity", "Injury severity is required",
                     "Injury Details"))
        \o When(~Has(bodyParts) \/ Len(Get(bodyParts)) = 0,
                VErr("injuryDetails.bodyPartsAffected",
                     "At least one affected body part must be selected", "Injury Details"))
        \o When(~Has(Opt(injury, "ppeUsed")),
                VErr("injuryDetails.ppeUsed", "PPE usage information is required",
                     "Injury Details"))

validatePublicLiability(inc) ==
    When(MissingOrBlank(Opt(inc.personInvolved, "fullName")),
         VErr("personInvolved.fullName", "Name of public member is required",
              "Person Involved"))
    \o When(MissingOrBlank(Opt(inc.publicLiabilityDetails, "reasonForBeingOnSite")),
            VErr("publicLiabilityDetails.reasonForBeingOnSite",
                 "Reason for being on site is required", "Public Liability Details"))
    \o When(/\ ~StrFalsy(Opt(inc.injuryDetails, "natureOfInjury"))
            /\ ~Has(Opt(inc.injuryDetails, "severity")),
            VErr("injuryDetails.severity",
                 "Injury severity is required when injury is reported", "Injury Details"))

\* variant: !urgentRepairRequired in place of === undefined
validatePropertyDamage_Falsy(inc) ==
    LET damage == inc.propertyDamageDetails
        urgent == Opt(damage, "urgentRepairRequired")
    IN  When(MissingOrBlank(Opt(damage, "assetDescription")),
             VErr("propertyDamageDetails.assetDescription",
                  "Description of damaged property is required", "Property Damage Details"))
        \o When(MissingOrBlank(Opt(damage, "extentOfDamage")),
                VErr("propertyDamageDetails.extentOfDamage", "Extent of damage is required",
                     "Property Damage Details"))
        \o When(MissingOrBlank(Opt(damage, "assetType")),
                VErr("propertyDamageDetails.assetType", "Asset type is required",
                     "Property Damage Details"))
        \o When(~Has(urgent) \/ ~Get(urgent),
                VErr("propertyDamageDetails.urgentRepairRequired",
                     "Please indicate if urgent repair is required",
                     "Property Damage Details"))

validatePropertyDamage(inc) ==
    LET damage == inc.propertyDamageDetails
    IN  When(MissingOrBlank(Opt(damage, "assetDescription")),
             VErr("propertyDamageDetails.assetDescription",
                  "Description of damaged property is required", "Property Damage Details"))
        \o When(MissingOrBlank(Opt(damage, "extentOfDamage")),
                VErr("propertyDamageDetails.extentOfDamage", "Extent of damage is required",
                     "Property Damage Details"))
        \o When(MissingOrBlank(Opt(damage, "assetType")),
                VErr("propertyDamageDetails.assetType", "Asset type is required",
                     "Property Damage Details"))
        \o When(~Has(Opt(damage, "urgentRepairRequired")),
                VErr("propertyDamageDetails.urgentRepairRequired",
                     "Please indicate if urgent repair is required",
                     "Property Damage Details"))

validateVehicleIncident(inc) ==
    LET vehicle == inc.vehicleDetails
        registration == Opt(vehicle, "registration")
        policeNotified == Opt(vehicle, "policeNotified")
        registrationErrs ==
            IF MissingOrBlank(registration)
            THEN <<VErr("vehicleDetails.registration", "Vehicle registration is required",
                        "Vehicle Details")>>
            ELSE When(~ukRegRegex(StripSpaces(Get(registration))),
                      VErr("vehicleDetails.registration",
                           "Please enter a valid UK vehicle registration",
                           "Vehicle Details"))
    IN  registrationErrs
        \o When(MissingOrBlank(Opt(vehicle, "driverName")),
                VErr("vehicleDetails.driverName", "Driver name is required",
                     "Vehicle Details"))
        \o When(~Has(Opt(vehicle, "companyVehicle")),
                VErr("vehicleDetails.companyVehicle",
                     "Please indicate if this is a company vehicle", "Vehicle Details"))
        \o When(~Has(policeNotified),
                VErr("vehicleDetails.policeNotified",
                     "Please indicate if police were notified", "Vehicle Details"))
        \o When(/\ Has(policeNotified)
                /\ Get(policeNotified)
                /\ MissingOrBlank(Opt(vehicle, "policeReferenceNumber")),
                VErr("vehicleDetails.policeReferenceNumber",
                     "Police reference number is strongly recommended when police are notified",
                     "Vehicle Details"))

\* variant: the one-based position in the path
IndexedPath_OneBased(list, index, leaf) == list \o "[" \o ToString(index + 1) \o "]." \o leaf

\* the template literals `correctiveActions[${index}].description` etc.
IndexedPath(list, index, leaf) == list \o "[" \o ToString(index) \o "]." \o leaf

ActionMessage(index, what) ==
    "Corrective action " \o ToString(index + 1) \o ": " \o what

\* the body of the forEach callback for the entry at the zero-based index
validateCorrectiveAction(action, index) ==
    When(MissingOrBlank(action.description),
         VErr(IndexedPath("correctiveActions", index, "description"),
              ActionMessage(index, "Description is required"), "Corrective Actions"))
    \o When(MissingOrBlank(action.responsiblePerson),
            VErr(IndexedPath("correctiveActions", index, "responsiblePerson"),
                 ActionMessage(index, "Responsible person is required"),
                 "Corrective Actions"))

RECURSIVE forEachCorrectiveAction(_, _)
forEachCorrectiveAction(actions, index) ==
    IF index >= Len(actions)
    THEN <<>>
    ELSE validateCorrectiveAction(actions[index + 1], index)
         \o forEachCorrectiveAction(actions, index + 1)

\* variant: the list is only tested for presence, not for length === 0
validateInvestigationFields_NoLength(inc) ==
    LET rca == inc.rootCauseAnalysis
    IN  When(MissingOrBlank(Opt(rca, "directCause")),
             VErr("rootCauseAnalysis.directCause",
                  "Direct cause is required for investigation report",
                  "Root Cause Analysis"))
        \o When(MissingOrBlank(Opt(rca, "underlyingRootCause")),
                VErr("rootCauseAnalysis.underlyingRootCause",
                     "Underlying root cause is required for investigation report",
                     "Root Cause Analysis"))
        \o When(~Has(Opt(rca, "wereControlsAdequate")),
                VErr("rootCauseAnalysis.wereControlsAdequate",
                     "Assessment of existing controls is required", "Root Cause Analysis"))
        \o (IF ~Has(inc.correctiveActions)
            THEN <<VErr("correctiveActions",
                        "At least one corrective action is required for investigation report",
                        "Corrective Actions")>>
            ELSE forEachCorrectiveAction(Get(inc.correctiveActions), 0))

validateInvestigationFields(inc) ==
    LET rca == inc.rootCauseAnalysis
    IN  When(MissingOrBlank(Opt(rca, "directCause")),
             VErr("rootCauseAnalysis.directCause",
                  "Direct cause is required for investigation report",
                  "Root Cause Analysis"))
        \o When(MissingOrBlank(Opt(rca, "underlyingRootCause")),
                VErr("rootCauseAnalysis.underlyingRootCause",
                     "Underlying root cause is required for investigation report",
                     "Root Cause Analysis"))
        \o When(~Has(Opt(rca, "wereControlsAdequate")),
                VErr("rootCauseAnalysis.wereControlsAdequate",
                     "Assessment of existing controls is required", "Root Cause Analysis"))
        \o (IF ~Has(inc.correctiveActions) \/ Len(Get(inc.correctiveActions)) = 0
            THEN <<VErr("correctiveActions",
                        "At least one corrective action is required for investigation report",
                        "Corrective Actions")>>
            ELSE forEachCorrectiveAction(Get(inc.correctiveActions), 0))

\* the body of the witnesses.forEach callback
witnessWarning(witness, index) ==
    When(MissingOrBlank(witness.statement),
         VErr(IndexedPath("witnesses", index, "statement"),
              "Witness " \o ToString(index + 1) \o ": Statement is recommended",
              "Witnesses"))

RECURSIVE forEachWitness(_, _)
forEachWitness(witnesses, index) ==
    IF index >= Len(witnesses)
    THEN <<>>
    ELSE witnessWarning(witnesses[index + 1], index) \o forEachWitness(witnesses, index + 1)

\* the condition of the RIDDOR reminder, as JavaScript parses it:
\* (category === 'personal_injury' && severity === 'severe') || severity === 'fatal'
riddorCondition(inc) ==
    LET severity == Opt(inc.injuryDetails, "severity")
    IN  \/ /\ inc.category = Some("personal_injury")
           /\ severity = Some("severe")
        \/ severity = Some("fatal")

generateWarnings(inc) ==
    LET email == Opt(inc.reportedBy, "email")
        phone == Opt(inc.reportedBy, "contactNumber")
    IN  When(~StrFalsy(email) /\ ~isValidEmail(Get(email)),
             VErr("reportedBy.email", "Email format appears invalid", "Basic Information"))
        \o When(~StrFalsy(phone) /\ ~isValidUKPhone(Get(phone)),
                VErr("reportedBy.contactNumber", "Phone number format appears invalid",
                     "Basic Information"))
        \o (IF Has(inc.witnesses) /\ Len(Get(inc.witnesses)) > 0
            THEN forEachWitness(Get(inc.witnesses), 0)
            ELSE <<>>)
        \o When(~Has(inc.attachments) \/ Len(Get(inc.attachments)) = 0,
                VErr("attachments", "Consider adding photos or other evidence",
                     "Attachments"))
        \o When(riddorCondition(inc) /\ ~Has(inc.riddorAssessment),
                VErr("riddorAssessment",
                     "Serious injury may be RIDDOR reportable - ensure HSE notification is considered",
                     "Legal Compliance"))

(***************************************************************************)
(* A ValidationResult, or the exception the call raised instead.           *)
(***************************************************************************)
\* variant: a warning blocks validity as an error does
Result_WarningsBlock(errs, warns) ==
    [threw |-> FALSE, valid |-> Len(errs) = 0 /\ Len(warns) = 0, errors |-> errs,
     warnings |-> warns]

Result(errs, warns) ==
    [threw |-> FALSE, valid |-> Len(errs) = 0, errors |-> errs, warnings |-> warns]

Thrown == [threw |-> TRUE, valid |-> FALSE, errors |-> <<>>, warnings |-> <<>>]

\* the switch (incident.category) of validateIncident
categoryErrors(inc) ==
    CASE inc.category = Some("personal_injury") -> validatePersonalInjury(inc)
      [] inc.category = Some("public_liability") -> validatePublicLiability(inc)
      [] inc.category = Some("property_damage") -> validatePropertyDamage(inc)
      [] inc.category = Some("vehicle_incident") -> validateVehicleIncident(inc)
      [] OTHER -> <<>>

validateIncident(inc, clock) ==
    LET basic == validateBasicInfo(inc, clock)
    IN  IF basic.threw
        THEN Thrown
        ELSE Result(basic.errors \o categoryErrors(inc), generateWarnings(inc))

\* variant: any attachment counts as a photo
noPhoto_AnyType(inc) == ~Has(inc.attachments) \/ Len(Get(inc.attachments)) = 0

\* attachments.filter(a => a.type === 'photo').length === 0
noPhoto(inc) ==
    \/ ~Has(inc.attachments)
    \/ Len(SelectSeq(Get(inc.attachments), LAMBDA a : a.type = "photo")) = 0

\* options is dereferenced without ?.: an absent options object raises
\* variant: the warnings of the basic validation are not carried over
validateIncidentForPDF_NoWarnings(inc, opts, clock) ==
    LET basicValidation == validateIncident(inc, clock)
    IN  IF basicValidation.threw \/ ~Has(opts)
        THEN Thrown
        ELSE Result(basicValidation.errors, <<>>)

validateIncidentForPDF(inc, opts, clock) ==
    LET basicValidation == validateIncident(inc, clock)
        o == Get(opts)
        investigationErrs ==
            IF ~o.summaryOnly THEN validateInvestigationFields(inc) ELSE <<>>
        signatureErrs ==
            IF o.includeSignatures
            THEN When(~Has(Opt(inc.signatures, "reporter")),
                      VErr("signatures.reporter",
                           "Reporter signature is required for PDF export", "Signatures"))
                 \o When(~o.summaryOnly /\ ~Has(Opt(inc.signatures, "investigator")),
                         VErr("signatures.investigator",
                              "Investigator signature is required for full investigation PDF",
                              "Signatures"))
            ELSE <<>>
        photoErrs ==
            When(o.includePhotos /\ noPhoto(inc),
                 VErr("attachments", "No photos available to include in PDF",
                      "Attachments"))
    IN  IF basicValidation.threw \/ ~Has(opts)
        THEN Thrown
        ELSE Result(basicValidation.errors \o investigationErrs \o signatureErrs
                    \o photoErrs,
                    basicValidation.warnings)

(***************************************************************************)
(* Input values: the shapes of shared/src/types/incident.ts, each field    *)
(* drawn from a small set that holds the cases the rules distinguish.      *)
(***************************************************************************)
Blank == <<" ", " ">>
Text(c, n) == [i \in 1..n |-> c]
LongText == Text("x", 20)
ShortText == Text("x", 19)

Categories == {"personal_injury", "property_damage", "vehicle_incident", "public_liability"}
CategoryValues == {Absent} \cup {Some(c) : c \in Categories \cup {"near_miss"}}
Severities == {"minor", "moderate", "severe", "fatal"}

NameValues == {Absent, Some(Blank), Some(<<"A", "n", "n">>)}
FlagValues == {Absent, Some(TRUE), Some(FALSE)}

DateValues ==
    {Absent, Some(EmptyDate), Some(GarbageDate)} \cup {Some(IsoDate(t)) : t \in 0..MaxNow}

TimeValues ==
    {Absent, Some(<<>>), Some(<<"1", "4", ":", "3", "0">>), Some(<<"2", "4", ":", "0", "0">>),
     Some(<<"9", ":", "3", "0">>), Some(<<"2", "3", ":", "6", "0">>),
     Some(<<"0", "0", ":", "0", "0">>)}

LocationValues ==
    {Absent}
    \cup {Some([gpsCoordinates |-> g, manualAddress |-> a]) :
            g \in {Absent, Some([latitude |-> 51, longitude |-> 0])},
            a \in {Absent, Some(<<>>), Some(<<"H", "Q">>)}}

DescriptionValues ==
    {Absent}
    \cup {Some([whatHappened |-> w]) :
            w \in {Absent, Some(Blank), Some(ShortText), Some(LongText)}}

ReporterValues ==
    {Absent}
    \cup {Some([name |-> n, email |-> Absent, contactNumber |-> Absent]) : n \in NameValues}
    \cup {Some([name |-> Some(<<"A", "n", "n">>), email |-> e, contactNumber |-> c]) :
            e \in {Some(<<"a", "@", "b", ".", "c">>), Some(<<"a", "@", "b">>)},
            c \in {Some(<<"0", "7">>)}}

PersonValues == {Absent} \cup {Some([fullName |-> n]) : n \in NameValues}

InjuryValues ==
    {Absent}
    \cup {Some([natureOfInjury |-> n, severity |-> s, bodyPartsAffected |-> b, ppeUsed |-> p]) :
            n \in {Absent, Some(Blank), Some(<<"C", "u", "t">>)},
            s \in {Absent} \cup {Some(v) : v \in Severities},
            b \in {Absent, Some(<<>>), Some(<<"head">>)},
            p \in {Absent, Some([used |-> TRUE]), Some([used |-> FALSE])}}

PropertyValues ==
    {Absent}
    \cup {Some([assetDescription |-> d, extentOfDamage |-> e, assetType |-> t,
                urgentRepairRequired |-> u]) :
            d \in NameValues, e \in NameValues, t \in NameValues, u \in FlagValues}

RegistrationValues ==
    {Absent, Some(Blank),
     Some(<<"I", "N", "V", "A", "L", "I", "D">>),
     Some(<<"A", "B", "1", "2", " ", "C", "D", "E">>),
     Some(<<"a", "1", "2", "3", "b", "c", "d">>),
     Some(<<"A", "1", "2", "3", "4", "B", "C", "D">>)}

ValidVehicle ==
    [registration |-> Some(<<"A", "B", "1", "2", " ", "C", "D", "E">>),
     driverName |-> Some(<<"A", "n", "n">>),
     companyVehicle |-> Some(TRUE),
     policeNotified |-> Some(FALSE),
     policeReferenceNumber |-> Absent]

VehicleValues ==
    {Absent}
    \cup {Some([ValidVehicle EXCEPT !.registration = r, !.driverName = d]) :
            r \in RegistrationValues, d \in NameValues}
    \cup {Some([ValidVehicle EXCEPT !.companyVehicle = c, !.policeNotified = p,
                                    !.policeReferenceNumber = n]) :
            c \in FlagValues, p \in FlagValues,
            n \in {Absent, Some(Blank), Some(<<"P", "1">>)}}

LiabilityValues == {Absent} \cup {Some([reasonForBeingOnSite |-> r]) : r \in NameValues}

RootCauseValues ==
    {Absent}
    \cup {Some([directCause |-> d, underlyingRootCause |-> u, wereControlsAdequate |-> w]) :
            d \in NameValues, u \in NameValues, w \in {Absent, Some("yes")}}

ActionValues ==
    {[description |-> d, responsiblePerson |-> r, status |-> Some("open")] :
        d \in NameValues, r \in {Absent, Some(<<"B", "o", "b">>)}}
    \cup {[description |-> Some(<<"f", "i", "x">>), responsiblePerson |-> Some(Blank),
           status |-> Some("open")]}

\* every list of at most n entries drawn from S
RECURSIVE ListsUpTo(_, _)
ListsUpTo(S, n) ==
    IF n = 0
    THEN {<<>>}
    ELSE LET shorter == ListsUpTo(S, n - 1)
         IN  shorter \cup {Append(l, e) : l \in {x \in shorter : Len(x) = n - 1}, e \in S}

ActionListValues == {Absent} \cup {Some(l) : l \in ListsUpTo(ActionValues, MaxActions)}

WitnessListValues ==
    {Absent, Some(<<>>)}
    \cup {Some(<<[name |-> Some(<<"W">>), statement |-> s]>>) : s \in NameValues}
    \cup {Some(<<[name |-> Some(<<"W">>), statement |-> Absent],
                 [name |-> Some(<<"V">>), statement |-> s]>>) : s \in NameValues}

AttachmentListValues ==
    {Absent} \cup {Some(l) : l \in ListsUpTo({[uri |-> "file://a", type |-> t] :
                                                t \in {"photo", "document"}},
                                             MaxAttachments)}

SignatureValues ==
    {Absent}
    \cup {Some([reporter |-> r, investigator |-> i]) :
            r \in {Absent, Some([name |-> "Ann", signedAt |-> 0])},
            i \in {Absent, Some([name |-> "Ian", signedAt |-> 0])}}

RiddorValues == {Absent, Some([isReportable |-> TRUE, reportedToHSE |-> FALSE])}

(***************************************************************************)
(* A record that passes validate for its category, and ones that also pass *)
(* the export rules.                                                       *)
(***************************************************************************)
BaseIncident ==
    [referenceCode |-> "INC-20240101-0001",
     category |-> Absent,
     dateOfIncident |-> Some(IsoDate(0)),
     timeOfIncident |-> Some(<<"1", "4", ":", "3", "0">>),
     location |-> Some([gpsCoordinates |-> Absent, manualAddress |-> Some(<<"H", "Q">>)]),
     incidentDescription |-> Some([whatHappened |-> Some(LongText)]),
     reportedBy |-> Some([name |-> Some(<<"A", "n", "n">>), email |-> Absent,
                          contactNumber |-> Absent]),
     personInvolved |-> Absent,
     injuryDetails |-> Absent,
     propertyDamageDetails |-> Absent,
     vehicleDetails |-> Absent,
     publicLiabilityDetails |-> Absent,
     rootCauseAnalysis |-> Absent,
     correctiveActions |-> Absent,
     witnesses |-> Absent,
     attachments |-> Absent,
     signatures |-> Absent,
     riddorAssessment |-> Absent]

ValidPerson == [fullName |-> Some(<<"A", "n", "n">>)]
ValidInjury ==
    [natureOfInjury |-> Some(<<"C", "u", "t">>), severity |-> Some("minor"),
     bodyPartsAffected |-> Some(<<"head">>), ppeUsed |-> Some([used |-> TRUE])]
ValidProperty ==
    [assetDescription |-> Some(<<"A", "n", "n">>), extentOfDamage |-> Some(<<"A", "n", "n">>),
     assetType |-> Some(<<"A", "n", "n">>), urgentRepairRequired |-> Some(FALSE)]
ValidLiability == [reasonForBeingOnSite |-> Some(<<"A", "n", "n">>)]

ValidIncident(category) ==
    LET base == [BaseIncident EXCEPT !.category = category]
    IN  CASE category = Some("personal_injury") ->
               [base EXCEPT !.personInvolved = Some(ValidPerson),
                            !.injuryDetails = Some(ValidInjury)]
          [] category = Some("property_damage") ->
               [base EXCEPT !.propertyDamageDetails = Some(ValidProperty)]
          [] category = Some("vehicle_incident") ->
               [base EXCEPT !.vehicleDetails = Some(ValidVehicle)]
          [] category = Some("public_liability") ->
               [base EXCEPT !.personInvolved = Some(ValidPerson),
                            !.publicLiabilityDetails = Some(ValidLiability)]
          [] OTHER -> base

ValidIncidents == {ValidIncident(c) : c \in CategoryValues}

\* the records handed to validate: around every valid record, the base
\* fields, and each sub-record under every category
BasicRecords ==
    {[r EXCEPT !.dateOfIncident = d, !.location = l] :
        r \in ValidIncidents, d \in DateValues, l \in LocationValues}
    \cup {[r EXCEPT !.timeOfIncident = t, !.incidentDescription = w, !.reportedBy = p] :
            r \in ValidIncidents, t \in TimeValues, w \in DescriptionValues,
            p \in ReporterValues}

CategoryRecords ==
    {[r EXCEPT !.injuryDetails = i, !.riddorAssessment = a] :
        r \in ValidIncidents, i \in InjuryValues, a \in RiddorValues}
    \cup {[r EXCEPT !.personInvolved = p, !.publicLiabilityDetails = l] :
            r \in ValidIncidents, p \in PersonValues, l \in LiabilityValues}
    \cup {[r EXCEPT !.propertyDamageDetails = d] : r \in ValidIncidents, d \in PropertyValues}
    \cup {[r EXCEPT !.vehicleDetails = v] : r \in ValidIncidents, v \in VehicleValues}
    \cup {[r EXCEPT !.witnesses = w, !.attachments = a] :
            r \in ValidIncidents, w \in WitnessListValues, a \in AttachmentListValues}

ValidateRecords == BasicRecords \cup CategoryRecords

\* getDefaultPdfOptions(summaryOnly)
getDefaultPdfOptions(summaryOnly) ==
    [summaryOnly |-> summaryOnly,
     includePhotos |-> ~summaryOnly,
     includeSignatures |-> TRUE,
     includeRootCause |-> ~summaryOnly,
     includeCorrectiveActions |-> ~summaryOnly,
     includeWitnessStatements |-> ~summaryOnly,
     includeAttachments |-> ~summaryOnly,
     confidential |-> TRUE]

OptionValues ==
    {[getDefaultPdfOptions(s) EXCEPT !.includeSignatures = g, !.includePhotos = p] :
        s \in BOOLEAN, g \in BOOLEAN, p \in BOOLEAN}

\* the records handed to validateForExport: the investigation fields, the
\* corrective actions, the signatures and the attachments
ValidRootCause ==
    [directCause |-> Some(<<"A", "n", "n">>), underlyingRootCause |-> Some(<<"A", "n", "n">>),
     wereControlsAdequate |-> Some("yes")]
ValidAction ==
    [description |-> Some(<<"f", "i", "x">>), responsiblePerson |-> Some(<<"B", "o", "b">>),
     status |-> Some("open")]

ExportBases ==
    {ValidIncident(Some(c)) : c \in {"personal_injury", "vehicle_incident"}}
    \cup {[ValidIncident(Some("property_damage")) EXCEPT !.location = Some([gpsCoordinates |-> Absent, manualAddress |-> Absent])]}

ExportRecords ==
    {[r EXCEPT !.rootCauseAnalysis = c, !.correctiveActions = a] :
        r \in ExportBases, c \in {Absent, Some(ValidRootCause)}, a \in ActionListValues}
    \cup {[r EXCEPT !.rootCauseAnalysis = c, !.correctiveActions = a] :
            r \in ExportBases, c \in RootCauseValues,
            a \in {Absent, Some(<<>>), Some(<<ValidAction>>)}}
    \cup {[r EXCEPT !.rootCauseAnalysis = Some(ValidRootCause),
                    !.correctiveActions = a, !.signatures = g, !.attachments = t] :
            r \in ExportBases, a \in {Some(<<>>), Some(<<ValidAction>>)},
            g \in SignatureValues, t \in AttachmentListValues}

(***************************************************************************)
(* Calls of the validation engine.  last and prev hold the two most recent *)
(* calls with the clock each read and what each returned.                  *)
(***************************************************************************)
NoCall == [op |-> "none", at |-> 0, result |-> Thrown]

Validate ==
    /\ last' = [op |-> "validate", at |-> now, result |-> validateIncident(incident, now)]
    /\ prev' = last
    /\ UNCHANGED <<store, storage, calls,
                   incident, options, now, pc, caller, outputPath, validation, pdfModel,
                   doc, artifact, exportResult, response, trace, body>>

ValidateForExport ==
    /\ last' = [op |-> "validateForExport", at |-> now,
                result |-> validateIncidentForPDF(incident, options, now)]
    /\ prev' = last
    /\ UNCHANGED <<store, storage, calls,
                   incident, options, now, pc, caller, outputPath, validation, pdfModel,
                   doc, artifact, exportResult, response, trace, body>>

\* the wall clock advances between calls
Tick ==
    /\ now < MaxNow
    /\ now' = now + 1
    /\ UNCHANGED <<store, storage, calls,
                   incident, options, prev, last, pc, caller, outputPath, validation,
                   pdfModel, doc, artifact, exportResult, response, trace, body>>

\* the initial state of the store; nothing stored, no operation started
NewStore ==
    [incidents |-> <<>>, currentIncident |-> Absent, validationResult |-> Absent,
     isLoading |-> FALSE, error |-> Absent]

StoreIdle ==
    /\ store = NewStore
    /\ storage = <<>>
    /\ calls = <<>>

ExportIdle ==
    /\ StoreIdle
    /\ pc = "idle"
    /\ caller = "direct"
    /\ outputPath = Absent
    /\ validation = Absent
    /\ pdfModel = Absent
    /\ doc = Absent
    /\ artifact = "none"
    /\ exportResult = Absent
    /\ response = Absent
    /\ trace = <<>>
    /\ body = [incident |-> Absent, options |-> Absent]

InitValidate ==
    /\ incident \in ValidateRecords
    /\ options \in {Some(getDefaultPdfOptions(s)) : s \in BOOLEAN}
    /\ now \in 0..MaxNow
    /\ prev = NoCall
    /\ last = NoCall
    /\ ExportIdle

NextValidate == Validate \/ ValidateForExport

SpecValidate == InitValidate /\ [][NextValidate]_vars

InitExportRules ==
    /\ incident \in ExportRecords
    /\ options \in {Some(o) : o \in OptionValues}
    /\ now = 0
    /\ prev = NoCall
    /\ last = NoCall
    /\ ExportIdle

SpecExportRules == InitExportRules /\ [][NextValidate]_vars

RepeatRecords ==
    {[r EXCEPT !.dateOfIncident = d, !.riddorAssessment = a] :
        r \in {ValidIncident(Some(c)) : c \in Categories}, d \in DateValues,
        a \in RiddorValues}

InitRepeat ==
    /\ incident \in RepeatRecords
    /\ options \in {Some(getDefaultPdfOptions(TRUE))}
    /\ now = 0
    /\ prev = NoCall
    /\ last = NoCall
    /\ ExportIdle

NextRepeat == Tick \/ Validate \/ ValidateForExport

SpecRepeat == InitRepeat /\ [][NextRepeat]_vars

(***************************************************************************)
(* mapIncidentToPdfModel.  A row value is an optional display string: a    *)
(* TLA+ string, or Absent where the code hands undefined to the model.  An *)
(* undefined object dereferenced without ?. raises a TypeError.            *)
(***************************************************************************)
\* obj.f on an object that may lack the property
Prop(obj, f) == IF f \in DOMAIN obj THEN obj[f] ELSE Absent

\* obj?.f on an object that may lack the property
OptProp(obj, f) == IF obj = Absent THEN Absent ELSE Prop(Get(obj), f)

\* the characters of a string, as the string
RECURSIVE Str(_)
Str(chars) == IF chars = <<>> THEN "" ELSE Head(chars) \o Str(Tail(chars))

\* parts.join(', ')
RECURSIVE JoinComma(_)
JoinComma(parts) ==
    IF parts = <<>> THEN ""
    ELSE IF Len(parts) = 1 THEN Head(parts)
    ELSE Head(parts) \o ", " \o JoinComma(Tail(parts))

\* value: x  (the property as it is, undefined included)
Shown(x) == IF Has(x) THEN Some(Str(Get(x))) ELSE Absent

\* value: x || fallback
OrElse(x, fallback) == IF StrFalsy(x) THEN Some(fallback) ELSE Some(Str(Get(x)))

\* value: flag ? 'Yes' : 'No'
YesNo(flag) == Some(IF flag = Some(TRUE) THEN "Yes" ELSE "No")

\* value: n?.toString() || 'N/A'
NumberOrNA(n) == IF Has(n) THEN Some(ToString(Get(n))) ELSE Some("N/A")

\* String.prototype.toUpperCase on the enumeration values
toUpperCase(e) ==
    CASE e = "minor" -> "MINOR"
      [] e = "moderate" -> "MODERATE"
      [] e = "severe" -> "SEVERE"
      [] e = "fatal" -> "FATAL"
      [] e = "open" -> "OPEN"
      [] e = "in_progress" -> "IN_PROGRESS"
      [] e = "closed" -> "CLOSED"
      [] OTHER -> e

\* labels[category] || category
getCategoryLabel(category) ==
    CASE category = Some("personal_injury") -> Some("Personal Injury")
      [] category = Some("property_damage") -> Some("Property Damage")
      [] category = Some("vehicle_incident") -> Some("Vehicle Incident")
      [] category = Some("public_liability") -> Some("Public Liability")
      [] OTHER -> category

\* formatDateUK of a Date: DD/MM/YYYY of its day, NaN/NaN/NaN of an Invalid Date
formatDate(d) ==
    IF d.nan THEN "NaN/NaN/NaN" ELSE "day " \o ToString(d.t \div TicksPerDay)

\* formatDateUK of a date string
formatDateUK(date) == formatDate(ParseDate(date))

\* formatTimeUK: the string as it is
formatTimeUK(time) == Str(time)

formatLocation(inc) ==
    LET location == Get(inc.location)
        gps == Prop(location, "gpsCoordinates")
    IN  IF ~StrFalsy(Prop(location, "manualAddress"))
        THEN Str(Get(Prop(location, "manualAddress")))
        ELSE IF Has(gps)
        THEN "GPS: " \o ToString(Get(gps).latitude) \o ".000000, "
             \o ToString(Get(gps).longitude) \o ".000000"
        ELSE "Not specified"

Row(label, value) == [label |-> label, value |-> value]
Section(title, rows) == [title |-> title, rows |-> rows]

\* the dereferences of mapIncidentToPdfModel and its builders that raise on
\* undefined
mapRaises(inc, opts) ==
    \/ ~Has(inc.dateOfIncident)                       \* formatDateUK: d.getDate
    \/ ~Has(inc.timeOfIncident)                       \* formatTimeUK: time.includes
    \/ ~Has(inc.location)                             \* incident.location.manualAddress
    \/ ~Has(inc.reportedBy)                           \* incident.reportedBy.name
    \/ /\ inc.category = Some("personal_injury")
       /\ Has(inc.injuryDetails)
       /\ \/ ~Has(Get(inc.injuryDetails).bodyPartsAffected)   \* .join
          \/ ~Has(Get(inc.injuryDetails).severity)            \* .toUpperCase
    \/ ~Has(inc.incidentDescription)                  \* desc.whatHappened
    \/ ~Has(opts)                                     \* options.summaryOnly
    \/ /\ ~Get(opts).summaryOnly
       /\ Get(opts).includeCorrectiveActions
       /\ Has(inc.correctiveActions)
       /\ \E i \in 1..Len(Get(inc.correctiveActions)) :
             ~Has(Get(inc.correctiveActions)[i].status)       \* action.status.toUpperCase

incidentInformationSection(inc) ==
    LET location == Get(inc.location)
    IN  Section("Incident Information",
                <<Row("Incident Reference", Some(inc.referenceCode)),
                  Row("Category", getCategoryLabel(inc.category)),
                  Row("Date of Incident", Some(formatDateUK(Get(inc.dateOfIncident)))),
                  Row("Time of Incident", Some(formatTimeUK(Get(inc.timeOfIncident)))),
                  Row("Location", Some(formatLocation(inc))),
                  Row("Site Name", OrElse(Prop(location, "siteName"), "N/A")),
                  Row("Department", OrElse(Prop(location, "department"), "N/A")),
                  Row("Area", OrElse(Prop(location, "area"), "N/A"))>>)

reportedBySection(inc) ==
    LET reporter == Get(inc.reportedBy)
    IN  Section("Reported By",
                <<Row("Name", Shown(Prop(reporter, "name"))),
                  Row("Job Title", OrElse(Prop(reporter, "jobTitle"), "N/A")),
                  Row("Contact Number", OrElse(Prop(reporter, "contactNumber"), "N/A")),
                  Row("Email", OrElse(Prop(reporter, "email"), "N/A")),
                  Row("Employer", OrElse(Prop(reporter, "employer"), "N/A"))>>)

personInvolvedSection(inc) ==
    LET person == Get(inc.personInvolved)
    IN  Section("Person Involved",
                <<Row("Full Name", Shown(Prop(person, "fullName"))),
                  Row("Age", NumberOrNA(Prop(person, "age"))),
                  Row("Role/Relationship", OrElse(Prop(person, "roleOrRelationship"), "N/A")),
                  Row("Employer", OrElse(Prop(person, "employer"), "N/A")),
                  Row("Contact Details", OrElse(Prop(person, "contactDetails"), "N/A")),
                  Row("Relevant Training",
                      YesNo(OptProp(Prop(person, "relevantTraining"), "hasTraining")))>>)

buildInjuryDetailsSection(inc) ==
    LET injury == Get(inc.injuryDetails)
        ppe == Prop(injury, "ppeUsed")
    IN  Section("Injury Details",
                <<Row("Nature of Injury", Shown(Prop(injury, "natureOfInjury"))),
                  Row("Body Parts Affected", Some(JoinComma(Get(injury.bodyPartsAffected)))),
                  Row("Severity", Some(toUpperCase(Get(injury.severity)))),
                  Row("First Aid Given",
                      YesNo(OptProp(Prop(injury, "firstAidGiven"), "given"))),
                  Row("First Aid Details",
                      OrElse(OptProp(Prop(injury, "firstAidGiven"), "treatment"), "N/A")),
                  Row("Hospital Visit",
                      YesNo(OptProp(Prop(injury, "hospitalVisit"), "wentToHospital"))),
                  Row("Hospital Name",
                      OrElse(OptProp(Prop(injury, "hospitalVisit"), "hospitalName"), "N/A")),
                  Row("Expected Lost Time (days)",
                      NumberOrNA(Prop(injury, "expectedLostTimeDays"))),
                  Row("PPE Used", Some(IF Has(ppe) /\ Get(ppe).used THEN "Yes" ELSE "No")),
                  Row("PPE Types",
                      IF Has(OptProp(ppe, "types")) /\ JoinComma(Get(OptProp(ppe, "types"))) # ""
                      THEN Some(JoinComma(Get(OptProp(ppe, "types")))) ELSE Some("N/A")),
                  Row("PPE Functioning Properly",
                      YesNo(OptProp(ppe, "functioningProperly")))>>)

buildPropertyDamageSection(inc) ==
    LET damage == Get(inc.propertyDamageDetails)
        cost == Prop(damage, "estimatedCost")
    IN  Section("Property Damage Details",
                <<Row("Asset Type", Shown(Prop(damage, "assetType"))),
                  Row("Description", Shown(Prop(damage, "assetDescription"))),
                  Row("Asset ID/Serial", OrElse(Prop(damage, "assetIdOrSerial"), "N/A")),
                  Row("Extent of Damage", Shown(Prop(damage, "extentOfDamage"))),
                  Row("Estimated Cost",
                      IF Has(cost) /\ Get(cost) # 0
                      THEN Some("GBP " \o ToString(Get(cost)) \o ".00") ELSE Some("N/A")),
                  Row("Urgent Repair Required", YesNo(Prop(damage, "urgentRepairRequired"))),
                  Row("Condition Before Incident",
                      Prop(damage, "conditionBeforeIncident"))>>)

buildVehicleDetailsSection(inc) ==
    LET vehicle == Get(inc.vehicleDetails)
        speed == Prop(vehicle, "approximateSpeedKmh")
    IN  Section("Vehicle Incident Details",
                <<Row("Vehicle Registration", Shown(Prop(vehicle, "registration"))),
                  Row("Make/Model", OrElse(Prop(vehicle, "makeModel"), "N/A")),
                  Row("Company Vehicle", YesNo(Prop(vehicle, "companyVehicle"))),
                  Row("Driver Name", Shown(Prop(vehicle, "driverName"))),
                  Row("Driver Licence Number",
                      OrElse(Prop(vehicle, "driverLicenceNumber"), "N/A")),
                  Row("Police Notified", YesNo(Prop(vehicle, "policeNotified"))),
                  Row("Police Reference",
                      OrElse(Prop(vehicle, "policeReferenceNumber"), "N/A")),
                  Row("Road Conditions", OrElse(Prop(vehicle, "roadConditions"), "N/A")),
                  Row("Weather Conditions", OrElse(Prop(vehicle, "weatherConditions"), "N/A")),
                  Row("Approximate Speed",
                      IF Has(speed) /\ Get(speed) # 0
                      THEN Some(ToString(Get(speed)) \o " km/h") ELSE Some("N/A"))>>)

buildPublicLiabilitySection(inc) ==
    LET liability == Get(inc.publicLiabilityDetails)
    IN  Section("Public Liability Details",
                <<Row("Reason for Being On Site",
                      Shown(Prop(liability, "reasonForBeingOnSite"))),
                  Row("Authorized Visitor", YesNo(Prop(liability, "authorizedVisitor"))),
                  Row("Signed In", YesNo(Prop(liability, "signedIn"))),
                  Row("Pre-existing Conditions",
                      OrElse(Prop(liability, "preExistingConditions"), "None reported")),
                  Row("Refused Treatment", YesNo(Prop(liability, "refusedTreatment")))>>)

buildIncidentDescriptionSection(inc) ==
    LET desc == Get(inc.incidentDescription)
    IN  Section("Incident Description",
                <<Row("What Happened", Shown(Prop(desc, "whatHappened"))),
                  Row("Sequence of Events", OrElse(Prop(desc, "sequenceOfEvents"), "N/A")),
                  Row("Activity at Time", OrElse(Prop(desc, "activityAtTime"), "N/A")),
                  Row("Immediate Cause", OrElse(Prop(desc, "immediateCause"), "N/A")),
                  Row("Unsafe Conditions", OrElse(Prop(desc, "unsafeConditions"), "N/A")),
                  Row("Unsafe Acts", OrElse(Prop(desc, "unsafeActs"), "N/A")),
                  Row("Environmental Factors",
                      OrElse(Prop(desc, "environmentalFactors"), "N/A")),
                  Row("Equipment Factors", OrElse(Prop(desc, "equipmentFactors"), "N/A")),
                  Row("Supervision Present", Prop(desc, "supervisionPresent")),
                  Row("Area Previously Inspected",
                      Prop(desc, "areaPreviouslyInspected"))>>)

buildRootCauseSection(inc) ==
    LET rca == Get(inc.rootCauseAnalysis)
        factors == Prop(rca, "contributingFactors")
    IN  Section("Root Cause Analysis",
                <<Row("Direct Cause", OrElse(Prop(rca, "directCause"), "N/A")),
                  Row("Indirect Cause", OrElse(Prop(rca, "indirectCause"), "N/A")),
                  Row("Underlying Root Cause",
                      OrElse(Prop(rca, "underlyingRootCause"), "N/A")),
                  Row("Contributing Factors",
                      IF Has(factors) /\ JoinComma(Get(factors)) # ""
                      THEN Some(JoinComma(Get(factors))) ELSE Some("N/A")),
                  Row("Preventative Measures",
                      OrElse(Prop(rca, "preventativeMeasures"), "N/A")),
                  Row("Were Controls Adequate", Prop(rca, "wereControlsAdequate")),
                  Row("Controls Explanation",
                      OrElse(Prop(rca, "controlsExplanation"), "N/A"))>>)

\* the three rows pushed by the witnesses.forEach callback
witnessRows(witness, index) ==
    LET n == ToString(index + 1)
    IN  <<Row("Witness " \o n \o " Name", Shown(Prop(witness, "name"))),
          Row("Witness " \o n \o " Contact",
              OrElse(Prop(witness, "contactDetails"), "N/A")),
          Row("Witness " \o n \o " Statement",
              OrElse(Prop(witness, "statement"), "No statement provided"))>>

RECURSIVE forEachWitnessRows(_, _)
forEachWitnessRows(witnesses, index) ==
    IF index >= Len(witnesses)
    THEN <<>>
    ELSE witnessRows(witnesses[index + 1], index)
         \o forEachWitnessRows(witnesses, index + 1)

buildWitnessesSection(inc) ==
    Section("Witness Information", forEachWitnessRows(Get(inc.witnesses), 0))

\* one row of the corrective actions table
actionCells(action) ==
    <<Shown(Prop(action, "description")),
      OrElse(Prop(action, "responsiblePerson"), "Unassigned"),
      IF Has(Prop(action, "dueDate"))
      THEN Some(formatDateUK(Get(Prop(action, "dueDate")))) ELSE Some("N/A"),
      Some(toUpperCase(Get(action.status)))>>

\* correctiveActions.map(action => [...])
RECURSIVE forEachAction(_)
forEachAction(actions) ==
    IF actions = <<>> THEN <<>>
    ELSE <<actionCells(Head(actions))>> \o forEachAction(Tail(actions))

\* attachments.map(a => ({ uri: a.uri, caption: a.caption }))
RECURSIVE forEachAttachment(_)
forEachAttachment(attachments) ==
    IF attachments = <<>> THEN <<>>
    ELSE <<[uri |-> Head(attachments).uri, caption |-> Prop(Head(attachments), "caption")]>>
         \o forEachAttachment(Tail(attachments))

buildCorrectiveActionsTable(inc) ==
    LET actions == Get(inc.correctiveActions)
    IN  [title |-> "Corrective Actions",
         headers |-> <<"Action", "Responsible Person", "Due Date", "Status">>,
         rows |-> forEachAction(actions)]

\* one entry of the signatures section
signatureEntry(sig, role) ==
    [name |-> sig.name, role |-> role, signedAt |-> formatDate([nan |-> FALSE, t |-> sig.signedAt])]

buildSignaturesSection(inc) ==
    LET sigs == Get(inc.signatures)
    IN  [title |-> "Signatures",
         signatures |->
             (IF Has(Prop(sigs, "reporter"))
              THEN <<signatureEntry(Get(sigs.reporter), "Reporter")>> ELSE <<>>)
             \o (IF Has(Prop(sigs, "investigator"))
                 THEN <<signatureEntry(Get(sigs.investigator), "Investigator")>> ELSE <<>>)
             \o (IF Has(Prop(sigs, "witness"))
                 THEN <<signatureEntry(Get(sigs.witness), "Witness")>> ELSE <<>>)]

categorySection(inc) ==
    CASE inc.category = Some("personal_injury") /\ Has(inc.injuryDetails) ->
           <<buildInjuryDetailsSection(inc)>>
      [] inc.category = Some("property_damage") /\ Has(inc.propertyDamageDetails) ->
           <<buildPropertyDamageSection(inc)>>
      [] inc.category = Some("vehicle_incident") /\ Has(inc.vehicleDetails) ->
           <<buildVehicleDetailsSection(inc)>>
      [] inc.category = Some("public_liability") /\ Has(inc.publicLiabilityDetails) ->
           <<buildPublicLiabilitySection(inc)>>
      [] OTHER -> <<>>

\* incident.correctiveActions as a condition: an array, even empty, is truthy
hasCorrectiveActions(inc) == Has(inc.correctiveActions)

\* variant: attachments only in a full report
hasAttachments_FullOnly(inc, o) ==
    ~o.summaryOnly /\ o.includeAttachments /\ Has(inc.attachments)
    /\ Len(Get(inc.attachments)) > 0

\* options.includeAttachments && incident.attachments && incident.attachments.length > 0
hasAttachments(inc, o) ==
    o.includeAttachments /\ Has(inc.attachments) /\ Len(Get(inc.attachments)) > 0

\* clock is the value of new Date() at the call
mapIncidentToPdfModel(inc, opts, clock) ==
    LET o == Get(opts)
        sections ==
            <<incidentInformationSection(inc), reportedBySection(inc)>>
            \o (IF Has(inc.personInvolved) THEN <<personInvolvedSection(inc)>> ELSE <<>>)
            \o categorySection(inc)
            \o <<buildIncidentDescriptionSection(inc)>>
            \o (IF Has(inc.witnesses) /\ Len(Get(inc.witnesses)) > 0
                THEN <<buildWitnessesSection(inc)>> ELSE <<>>)
    IN  IF mapRaises(inc, opts)
        THEN [threw |-> TRUE]
        ELSE [threw |-> FALSE,
              title |-> IF o.summaryOnly THEN "Incident Summary Report"
                        ELSE "Full Incident Investigation Report",
              referenceCode |-> inc.referenceCode,
              categoryLabel |-> getCategoryLabel(inc.category),
              exportDate |-> formatDate([nan |-> FALSE, t |-> clock]),
              headerFields |-> [reference |-> inc.referenceCode,
                                date |-> formatDateUK(Get(inc.dateOfIncident)),
                                category |-> getCategoryLabel(inc.category)],
              sections |-> sections,
              rootCauseSection |->
                  IF ~o.summaryOnly /\ o.includeRootCause /\ Has(inc.rootCauseAnalysis)
                  THEN Some(buildRootCauseSection(inc)) ELSE Absent,
              correctiveActionsSection |->
                  IF ~o.summaryOnly /\ o.includeCorrectiveActions /\ hasCorrectiveActions(inc)
                  THEN Some(buildCorrectiveActionsTable(inc)) ELSE Absent,
              attachmentsSection |->
                  IF hasAttachments(inc, o)
                  THEN Some([title |-> "Attachments",
                             attachments |-> forEachAttachment(Get(inc.attachments))])
                  ELSE Absent,
              signaturesSection |->
                  IF o.includeSignatures /\ Has(inc.signatures)
                  THEN Some(buildSignaturesSection(inc)) ELSE Absent]

\* buildPdfDocument: the sections drawn into the document, in order
buildPdfDocument(model) ==
    [drawn |-> model.sections
               \o model.rootCauseSection
               \o model.correctiveActionsSection
               \o model.signaturesSection]

(***************************************************************************)
(* exportIncidentToPDF and POST /api/pdf/generate, one action per step.    *)
(***************************************************************************)
PdfExportResult(success, filePath, buffer, error, v) ==
    [success |-> success, filePath |-> filePath, buffer |-> buffer, error |-> error,
     validation |-> v]

\* the catch block of exportIncidentToPDF
Caught(message) == PdfExportResult(FALSE, Absent, FALSE, Some(message), Absent)

\* variant: the early return on a failed validation is missing
proceeds_Always(v) == TRUE

\* if (!validation.valid) return {...}: the export goes on to map only then
proceeds(v) == v.valid

ExportUnchanged == UNCHANGED <<store, storage, calls,
                               incident, options, now, prev, last, caller, outputPath, body>>

\* a direct call of exportIncidentToPDF(incident, options, outputPath)
Export ==
    /\ pc = "idle"
    /\ caller = "direct"
    /\ pc' = "validate"
    /\ trace' = Append(trace, "call")
    /\ UNCHANGED <<validation, pdfModel, doc, artifact, exportResult, response>>
    /\ ExportUnchanged

\* POST: a body without incident is answered at once, else the export is called
Post ==
    /\ pc = "idle"
    /\ caller = "route"
    /\ IF ~Has(body.incident)
       THEN /\ pc' = "responded"
            /\ response' = Some([status |-> 400, error |-> Some("Incident data is required"),
                                 validation |-> Absent, pdf |-> FALSE])
            /\ trace' = Append(trace, "respond")
       ELSE /\ pc' = "validate"
            /\ trace' = Append(trace, "call")
            /\ UNCHANGED response
    /\ UNCHANGED <<validation, pdfModel, doc, artifact, exportResult>>
    /\ ExportUnchanged

\* Step 1: validateIncidentForPDF, and the early return when it is not valid
StepValidate ==
    /\ pc = "validate"
    /\ trace' = Append(trace, "validate")
    /\ LET v == validateIncidentForPDF(incident, options, now)
       IN  IF v.threw
           THEN /\ exportResult' = Some(Caught("Cannot read properties of undefined"))
                /\ pc' = "returned"
                /\ UNCHANGED validation
           ELSE /\ validation' = Some(v)
                /\ IF proceeds(v)
                   THEN pc' = "map" /\ UNCHANGED exportResult
                   ELSE /\ pc' = "returned"
                        /\ exportResult' =
                             Some(PdfExportResult(FALSE, Absent, FALSE,
                                                  Some("Incident data validation failed"),
                                                  Some(v)))
    /\ UNCHANGED <<pdfModel, doc, artifact, response>>
    /\ ExportUnchanged

\* Step 2: mapIncidentToPdfModel
StepMap ==
    /\ pc = "map"
    /\ trace' = Append(trace, "map")
    /\ LET m == mapIncidentToPdfModel(incident, options, now)
       IN  IF m.threw
           THEN /\ exportResult' = Some(Caught("Cannot read properties of undefined"))
                /\ pc' = "returned"
                /\ UNCHANGED pdfModel
           ELSE /\ pdfModel' = Some(m)
                /\ pc' = "build"
                /\ UNCHANGED exportResult
    /\ UNCHANGED <<validation, doc, artifact, response>>
    /\ ExportUnchanged

\* Step 3: buildPdfDocument; the drawing library may raise
StepBuild ==
    /\ pc = "build"
    /\ trace' = Append(trace, "build")
    /\ \E raised \in BOOLEAN :
          IF raised
          THEN /\ exportResult' = Some(Caught("switchToPage(0) out of bounds"))
               /\ pc' = "returned"
               /\ UNCHANGED doc
          ELSE /\ doc' = Some(buildPdfDocument(Get(pdfModel)))
               /\ pc' = "sink"
               /\ UNCHANGED exportResult
    /\ UNCHANGED <<validation, pdfModel, artifact, response>>
    /\ ExportUnchanged

\* the message of the error the file stream or the document emits
SinkFailure == "ENOSPC: no space left on device"

\* reject({ success: false, error: error.message }): the promise is rejected
\* with a plain object, not with an Error
rejection(message) == [isError |-> FALSE, message |-> message]

\* error instanceof Error ? error.message : 'Unknown error occurred'
catchMessage(error) == IF error.isError THEN error.message ELSE "Unknown error occurred"

\* Step 4: savePdfToFile or getPdfBuffer; a failing sink rejects, and the
\* rejection is caught by the catch block of exportIncidentToPDF
StepSink ==
    /\ pc = "sink"
    /\ trace' = Append(trace, "sink")
    /\ pc' = "returned"
    /\ \E failed \in BOOLEAN :
          IF failed
          THEN /\ exportResult' = Some(Caught(catchMessage(rejection(SinkFailure))))
               /\ artifact' \in (IF Has(outputPath) THEN {"none", "partial file"}
                                 ELSE {"none"})
          ELSE IF Has(outputPath)
               THEN /\ exportResult' =
                         Some(PdfExportResult(TRUE, outputPath, FALSE, Absent, Absent))
                    /\ artifact' = "file"
               ELSE /\ exportResult' =
                         Some(PdfExportResult(TRUE, Absent, TRUE, Absent, Absent))
                    /\ artifact' = "buffer"
    /\ UNCHANGED <<validation, pdfModel, doc, response>>
    /\ ExportUnchanged

\* generatePdfFileName: toISOString raises a RangeError on an Invalid Date
fileNameRaises(inc) ==
    ~Has(inc.dateOfIncident) \/ ParseDate(Get(inc.dateOfIncident)).nan

\* what POST answers once exportIncidentToPDF has resolved to result
postResponse(result, inc) ==
    CASE ~result.success ->
           [status |-> 400, error |-> result.error, validation |-> result.validation,
            pdf |-> FALSE]
      [] result.success /\ result.buffer /\ fileNameRaises(inc) ->
           [status |-> 500, error |-> Some("Internal server error"), validation |-> Absent,
            pdf |-> FALSE]
      [] result.success /\ result.buffer /\ ~fileNameRaises(inc) ->
           [status |-> 200, error |-> Absent, validation |-> Absent, pdf |-> TRUE]
      [] OTHER ->
           [status |-> 500, error |-> Some("Failed to generate PDF"), validation |-> Absent,
            pdf |-> FALSE]

PostRespond ==
    /\ pc = "returned"
    /\ caller = "route"
    /\ pc' = "responded"
    /\ trace' = Append(trace, "respond")
    /\ response' = Some(postResponse(Get(exportResult), incident))
    /\ UNCHANGED <<validation, pdfModel, doc, artifact, exportResult>>
    /\ ExportUnchanged

PipelineRecords ==
    LET full == [ValidIncident(Some("personal_injury")) EXCEPT
                    !.rootCauseAnalysis = Some(ValidRootCause),
                    !.signatures = Some([reporter |-> Some([name |-> "Ann", signedAt |-> 0]),
                                         investigator |-> Some([name |-> "Ian", signedAt |-> 0])]),
                    !.attachments = Some(<<[uri |-> "file://a", type |-> "photo"]>>)]
    IN  {[full EXCEPT !.correctiveActions = a, !.location = l, !.dateOfIncident = d] :
            a \in {Absent, Some(<<ValidAction>>),
                   Some(<<[ValidAction EXCEPT !.status = Absent]>>)},
            l \in {Absent, Some([gpsCoordinates |-> Absent, manualAddress |-> Absent]),
                   Some([gpsCoordinates |-> Absent, manualAddress |-> Some(<<"H", "Q">>)])},
            d \in {Some(IsoDate(0)), Some(GarbageDate), Absent}}
        \cup {[r EXCEPT !.signatures = g] : r \in ValidIncidents, g \in SignatureValues}

InitPipeline ==
    /\ StoreIdle
    /\ incident \in PipelineRecords
    /\ options \in {Absent} \cup {Some(getDefaultPdfOptions(s)) : s \in BOOLEAN}
    /\ now = 0
    /\ prev = NoCall
    /\ last = NoCall
    /\ pc = "idle"
    /\ caller \in {"direct", "route"}
    /\ outputPath \in (IF caller = "direct" THEN {Absent, Some("reports/incident.pdf")}
                       ELSE {Absent})
    /\ body \in (IF caller = "direct"
                 THEN {[incident |-> Absent, options |-> Absent]}
                 ELSE {[incident |-> i, options |-> options] : i \in {Absent, Some(incident)}})
    /\ validation = Absent
    /\ pdfModel = Absent
    /\ doc = Absent
    /\ artifact = "none"
    /\ exportResult = Absent
    /\ response = Absent
    /\ trace = <<>>

NextPipeline ==
    \/ Export
    \/ Post
    \/ StepValidate
    \/ StepMap
    \/ StepBuild
    \/ StepSink
    \/ PostRespond

SpecPipeline == InitPipeline /\ [][NextPipeline]_vars

(***************************************************************************)
(* Calls of the mapper and of the renderer on their own: the mapper reads  *)
(* the ambient clock; an extra clock argument handed to it is ignored.     *)
(***************************************************************************)
FullDescription ==
    [whatHappened |-> Some(LongText), supervisionPresent |-> Some("yes"),
     areaPreviouslyInspected |-> Some("no")]

FullProperty ==
    [assetDescription |-> Some(<<"A", "n", "n">>), extentOfDamage |-> Some(<<"A", "n", "n">>),
     assetType |-> Some(<<"A", "n", "n">>), urgentRepairRequired |-> Some(FALSE),
     conditionBeforeIncident |-> Some("good"), estimatedCost |-> Some(120)]

BothSignatures ==
    [reporter |-> Some([name |-> "Ann", signedAt |-> 0]),
     investigator |-> Some([name |-> "Ian", signedAt |-> 0])]

Photo == [uri |-> "file://a", type |-> "photo"]

\* a record of the category with every part of the report filled in
FullIncident(category) ==
    LET r == [ValidIncident(Some(category)) EXCEPT
                 !.incidentDescription = Some(FullDescription),
                 !.rootCauseAnalysis = Some(ValidRootCause),
                 !.correctiveActions = Some(<<ValidAction>>),
                 !.witnesses = Some(<<[name |-> Some(<<"W">>),
                                       statement |-> Some(<<"A", "n", "n">>)]>>),
                 !.attachments = Some(<<Photo>>),
                 !.signatures = Some(BothSignatures)]
    IN  IF category = "property_damage"
        THEN [r EXCEPT !.propertyDamageDetails = Some(FullProperty)]
        ELSE r

FullIncidents == {FullIncident(c) : c \in Categories}

MapOptionValues ==
    {[summaryOnly |-> s, includePhotos |-> FALSE, includeSignatures |-> g,
      includeRootCause |-> r, includeCorrectiveActions |-> c,
      includeWitnessStatements |-> TRUE, includeAttachments |-> a, confidential |-> TRUE] :
        s \in BOOLEAN, g \in BOOLEAN, r \in BOOLEAN, c \in BOOLEAN, a \in BOOLEAN}

\* the records handed to the mapper: never validated ones included
MapRecords ==
    FullIncidents
    \cup {[r EXCEPT !.correctiveActions = a, !.attachments = t] :
            r \in FullIncidents,
            a \in {Absent, Some(<<>>), Some(<<ValidAction, [ValidAction EXCEPT !.status = Absent]>>)},
            t \in {Absent, Some(<<>>)}}
    \cup {[r EXCEPT !.injuryDetails = i, !.propertyDamageDetails = d] :
            r \in FullIncidents,
            i \in {Absent, Some(ValidInjury), Some([ValidInjury EXCEPT !.severity = Absent]),
                   Some([ValidInjury EXCEPT !.bodyPartsAffected = Absent])},
            d \in {Absent, Some(ValidProperty), Some(FullProperty)}}
    \cup {[r EXCEPT !.vehicleDetails = v, !.publicLiabilityDetails = l, !.personInvolved = p] :
            r \in FullIncidents, v \in {Absent, Some(ValidVehicle)},
            l \in {Absent, Some(ValidLiability)}, p \in {Absent, Some(ValidPerson)}}
    \cup {[r EXCEPT !.reportedBy = p, !.incidentDescription = w, !.witnesses = n] :
            r \in FullIncidents,
            p \in {Absent, Some([name |-> Absent, email |-> Absent, contactNumber |-> Absent]),
                   Some([name |-> Some(<<"A", "n", "n">>), email |-> Absent,
                         contactNumber |-> Absent])},
            w \in {Absent, Some([whatHappened |-> Some(LongText)])},
            n \in {Absent, Some(<<>>)}}
    \cup {[r EXCEPT !.signatures = g, !.rootCauseAnalysis = c, !.dateOfIncident = d] :
            r \in FullIncidents, g \in {Absent, Some(BothSignatures)},
            c \in {Absent, Some(ValidRootCause)}, d \in {Absent, Some(GarbageDate)}}

\* mapIncidentToPdfModel(incident, options) called with a clock as a third
\* argument: the function takes two parameters and reads new Date()
Map ==
    /\ \E injected \in {0, MaxNow} :
          last' = [op |-> "map", at |-> now, clock |-> injected,
                   result |-> mapIncidentToPdfModel(incident, options, now)]
    /\ prev' = last
    /\ pdfModel' = IF last'.result.threw THEN Absent ELSE Some(last'.result)
    /\ doc' = Absent
    /\ UNCHANGED <<store, storage, calls,
                   incident, options, now, pc, caller, outputPath, validation, artifact,
                   exportResult, response, trace, body>>

\* buildPdfDocument on the model the mapper returned
Draw ==
    /\ Has(pdfModel)
    /\ doc = Absent
    /\ doc' = Some(buildPdfDocument(Get(pdfModel)))
    /\ UNCHANGED <<store, storage, calls,
                   incident, options, now, prev, last, pc, caller, outputPath, validation,
                   pdfModel, artifact, exportResult, response, trace, body>>

InitMap ==
    /\ incident \in MapRecords
    /\ options \in {Some(o) : o \in MapOptionValues}
    /\ now \in {0, MaxNow}
    /\ prev = NoCall
    /\ last = NoCall
    /\ ExportIdle

NextMap == Map \/ Draw

SpecMap == InitMap /\ [][NextMap]_vars

InitMapRepeat ==
    /\ incident \in FullIncidents
    /\ options \in {Some(getDefaultPdfOptions(s)) : s \in BOOLEAN}
    /\ now = 0
    /\ prev = NoCall
    /\ last = NoCall
    /\ ExportIdle

NextMapRepeat == Tick \/ Map

SpecMapRepeat == InitMapRepeat /\ [][NextMapRepeat]_vars

(***************************************************************************)
(* The page layout of buildPdfDocument, one action per text drawn.         *)
(* Lengths are hundredths of a point.  The document is created without     *)
(* bufferPages, so adding a page flushes the pages before it: the page     *)
(* buffer then starts at the new page, and switchToPage raises for a page  *)
(* that is no longer in it.  Pages are numbered from 0, as switchToPage    *)
(* numbers them.                                                           *)
(***************************************************************************)
PAGE_HEIGHT == 84189
MARGIN_TOP == 5000
MARGIN_BOTTOM == 5000

\* one text drawn on a page: where the cursor stood before the page-break
\* test (cursor), where it was drawn (page, y), and for a page label its
\* number and the page count it shows
Item(kind, page, y, cursor, number, total) ==
    [kind |-> kind, page |-> page, y |-> y, cursor |-> cursor, number |-> number,
     total |-> total]

\* what is left to draw: the kind of the entry, the space its page-break
\* test reserves (absent when the entry is drawn without a test) and the
\* advance of the cursor after it
Entry(kind, reserve, advance) == [kind |-> kind, reserve |-> reserve, advance |-> advance]

\* variant: the title test reserves the height of the title only
entriesOfSection_TitleOnly(section) ==
    <<Entry("title", Some(2500), 2500)>>
    \o [i \in 1..Len(section.rows) |-> Entry("row", Some(5000), 2000)]
    \o <<Entry("end", Absent, 1500)>>

\* addSection: the title, the rows, yPos += 15
entriesOfSection(section) ==
    <<Entry("title", Some(10000), 2500)>>
    \o [i \in 1..Len(section.rows) |-> Entry("row", Some(5000), 2000)]
    \o <<Entry("end", Absent, 1500)>>

\* addTable: the title, the header row, the rows, yPos += 15
entriesOfTable(table) ==
    <<Entry("title", Some(15000), 2500), Entry("tableHeader", Absent, 2000)>>
    \o [i \in 1..Len(table.rows) |-> Entry("tableRow", Some(3000), 2500)]
    \o <<Entry("end", Absent, 1500)>>

\* addSignatures: the title, then the blocks, drawn without a test
entriesOfSignatures(section) ==
    <<Entry("title", Some(20000), 2500)>>
    \o [i \in 1..Len(section.signatures) |-> Entry("signature", Absent, 8000)]

RECURSIVE entriesOfSections(_)
entriesOfSections(sections) ==
    IF sections = <<>> THEN <<>>
    ELSE entriesOfSection(Head(sections)) \o entriesOfSections(Tail(sections))

\* the calls of buildPdfDocument after the header, in order
entriesOfModel(model) ==
    entriesOfSections(model.sections)
    \o (IF Has(model.rootCauseSection)
        THEN entriesOfSection(Get(model.rootCauseSection)) ELSE <<>>)
    \o (IF Has(model.correctiveActionsSection)
        THEN entriesOfTable(Get(model.correctiveActionsSection)) ELSE <<>>)
    \o (IF Has(model.signaturesSection)
        THEN entriesOfSignatures(Get(model.signaturesSection)) ELSE <<>>)

\* new PDFDocument({ size, margins, info }): one page, held in the buffer
newDocument(yPos, queue) ==
    [pageCount |-> 1, bufferStart |-> 0, current |-> 0, placed |-> <<>>, threw |-> FALSE,
     yPos |-> yPos, queue |-> queue]

\* doc.addPage() without bufferPages
addPage(d) ==
    [d EXCEPT !.pageCount = @ + 1, !.bufferStart = d.pageCount, !.current = d.pageCount]

\* doc.bufferedPageRange()
bufferedPageRange(d) == [start |-> d.bufferStart, count |-> d.pageCount - d.bufferStart]

\* doc.text(..., x, y) on the current page
text(d, kind, y, cursor) ==
    [d EXCEPT !.placed = Append(@, Item(kind, d.current, y, cursor, 0, 0))]

\* yPos > PAGE_HEIGHT - MARGIN_BOTTOM - reserve
needsNewPage(yPos, reserve) == yPos > PAGE_HEIGHT - MARGIN_BOTTOM - reserve

\* if (needs a new page) { doc.addPage(); yPos = MARGIN_TOP; }
breakIf(d, reserve) ==
    IF Has(reserve) /\ needsNewPage(d.yPos, Get(reserve))
    THEN [addPage(d) EXCEPT !.yPos = MARGIN_TOP]
    ELSE d

\* the next entry: the page-break test, the text, the advance of the cursor
drawEntry(d) ==
    LET entry == Head(d.queue)
        b == breakIf(d, entry.reserve)
        drawn == IF entry.kind = "end" THEN b ELSE text(b, entry.kind, b.yPos, d.yPos)
    IN  [drawn EXCEPT !.yPos = b.yPos + entry.advance, !.queue = Tail(d.queue)]

\* addHeader: four texts on the first page
addHeader(d) ==
    text(text(text(text(d, "header", MARGIN_TOP, MARGIN_TOP),
                   "header", MARGIN_TOP + 3000, MARGIN_TOP + 3000),
              "header", MARGIN_TOP + 5000, MARGIN_TOP + 5000),
         "header", MARGIN_TOP + 6500, MARGIN_TOP + 6500)

\* doc.switchToPage(n): raises when page n is not in the buffer
switchToPage(d, n) ==
    LET range == bufferedPageRange(d)
    IN  IF n >= range.start /\ n < range.start + range.count
        THEN [d EXCEPT !.current = n]
        ELSE [d EXCEPT !.threw = TRUE]

\* for (let i = 0; i < pages.count; i++) { doc.switchToPage(i); doc.text(...) }
RECURSIVE stampPages(_, _, _, _, _)
stampPages(d, i, count, kind, y) ==
    IF i >= count
    THEN d
    ELSE LET switched == switchToPage(d, i)
         IN  IF switched.threw
             THEN switched
             ELSE stampPages([switched EXCEPT
                                 !.placed = Append(@, Item(kind, i, y, y, i + 1, count))],
                             i + 1, count, kind, y)

addLegalFooter(d) ==
    stampPages(d, 0, bufferedPageRange(d).count, "legend", PAGE_HEIGHT - MARGIN_BOTTOM + 2000)

addPageNumbers(d) ==
    stampPages(d, 0, bufferedPageRange(d).count, "pageLabel",
               PAGE_HEIGHT - MARGIN_BOTTOM + 3500)

RenderUnchanged ==
    UNCHANGED <<store, storage, calls,
                incident, options, now, prev, last, caller, outputPath, validation, pdfModel,
                artifact, exportResult, response, body>>

\* new PDFDocument, addHeader, let yPos = MARGIN_TOP + 100
BeginRender ==
    /\ pc = "render"
    /\ doc' = Some(addHeader(newDocument(MARGIN_TOP + 10000, entriesOfModel(Get(pdfModel)))))
    /\ pc' = "content"
    /\ trace' = Append(trace, "header")
    /\ RenderUnchanged

\* the next title, row, table row or signature block
DrawEntry ==
    /\ pc = "content"
    /\ Get(doc).queue # <<>>
    /\ doc' = Some(drawEntry(Get(doc)))
    /\ UNCHANGED <<pc, trace>>
    /\ RenderUnchanged

LegalFooterPass ==
    /\ pc = "content"
    /\ Get(doc).queue = <<>>
    /\ doc' = Some(addLegalFooter(Get(doc)))
    /\ pc' = IF Get(doc').threw THEN "raised" ELSE "numbers"
    /\ trace' = Append(trace, "footer")
    /\ RenderUnchanged

PageNumbersPass ==
    /\ pc = "numbers"
    /\ doc' = Some(addPageNumbers(Get(doc)))
    /\ pc' = IF Get(doc').threw THEN "raised" ELSE "drawn"
    /\ trace' = Append(trace, "numbers")
    /\ RenderUnchanged

\* the records whose model is handed to the renderer
RenderRecords ==
    ValidIncidents
    \cup FullIncidents
    \cup {[r EXCEPT !.correctiveActions = a, !.signatures = g, !.personInvolved = p] :
            r \in FullIncidents,
            a \in {Absent, Some(<<>>), Some(<<ValidAction, ValidAction>>)},
            g \in {Absent, Some(BothSignatures)}, p \in {Absent, Some(ValidPerson)}}

RenderOptionValues ==
    {[getDefaultPdfOptions(s) EXCEPT !.includeSignatures = g] : s \in BOOLEAN, g \in BOOLEAN}

RenderIdle ==
    /\ StoreIdle
    /\ now = 0
    /\ prev = NoCall
    /\ last = NoCall
    /\ caller = "direct"
    /\ outputPath = Absent
    /\ validation = Absent
    /\ pdfModel = Some(mapIncidentToPdfModel(incident, options, now))
    /\ artifact = "none"
    /\ exportResult = Absent
    /\ response = Absent
    /\ trace = <<>>
    /\ body = [incident |-> Absent, options |-> Absent]

InitRender ==
    /\ incident \in RenderRecords
    /\ options \in {Some(o) : o \in RenderOptionValues}
    /\ RenderIdle
    /\ pc = "render"
    /\ doc = Absent

NextRender == BeginRender \/ DrawEntry \/ LegalFooterPass \/ PageNumbersPass

SpecRender == InitRender /\ [][NextRender]_vars

(***************************************************************************)
(* addSection and addTable entered at a given cursor on a fresh document.  *)
(***************************************************************************)
\* the cursors at which the functions are entered: that of buildPdfDocument,
\* the top margin, those that bring the third row of a section below, on
\* and above the threshold of its test, the one that brings the fourth row
\* of a table on the threshold of its test, those on and next to the
\* thresholds of the title tests, and the first one from which a row drawn
\* right after a title would not pass its own test
CursorValues ==
    {MARGIN_TOP + 10000, MARGIN_TOP,
     PAGE_HEIGHT - MARGIN_BOTTOM - 5000 - 2500 - 2 * 2000 - 1,
     PAGE_HEIGHT - MARGIN_BOTTOM - 5000 - 2500 - 2 * 2000,
     PAGE_HEIGHT - MARGIN_BOTTOM - 5000 - 2500 - 2 * 2000 + 1,
     PAGE_HEIGHT - MARGIN_BOTTOM - 3000 - 2500 - 2000 - 3 * 2500,
     PAGE_HEIGHT - MARGIN_BOTTOM - 15000 - 1,
     PAGE_HEIGHT - MARGIN_BOTTOM - 15000 + 1,
     PAGE_HEIGHT - MARGIN_BOTTOM - 10000 - 1,
     PAGE_HEIGHT - MARGIN_BOTTOM - 10000,
     PAGE_HEIGHT - MARGIN_BOTTOM - 10000 + 1,
     PAGE_HEIGHT - MARGIN_BOTTOM - 5000 - 2500 + 1,
     PAGE_HEIGHT - MARGIN_BOTTOM,
     PAGE_HEIGHT}

\* a table of n rows
TableOfRows(n) == [title |-> "Corrective Actions", rows |-> [i \in 1..n |-> <<"cell">>]]

\* addSection(doc, section, yPos) / addTable(doc, table, yPos) about to run
InitLayout ==
    /\ incident \in FullIncidents
    /\ options \in {Some(getDefaultPdfOptions(s)) : s \in BOOLEAN}
    /\ RenderIdle
    /\ pc = "content"
    /\ \E yPos \in CursorValues :
          \/ \E i \in 1..Len(Get(pdfModel).sections) :
                doc = Some(newDocument(yPos, entriesOfSection(Get(pdfModel).sections[i])))
          \/ \E n \in 1..MaxRows :
                doc = Some(newDocument(yPos, entriesOfTable(TableOfRows(n))))

NextLayout == DrawEntry

SpecLayout == InitLayout /\ [][NextLayout]_vars

(***************************************************************************)
(* The incident store and the storage under it.  An asynchronous           *)
(* operation runs up to its next await in one step; a getItem or setItem   *)
(* it awaits takes effect in a step of the storage, and the operation      *)
(* resumes in a later step.  A stored incident is its id with the fields   *)
(* that validateIncident reads; timestamps are left out.                   *)
(***************************************************************************)
Stored(id, report) == [id |-> id, report |-> report]

\* createNewIncident(category): id incident_<Date.now()>, today's date, the
\* time of day, an empty location, an empty name, an empty description
createNewIncident(category, clock) ==
    Stored(clock,
           [BaseIncident EXCEPT
               !.category = Some(category),
               !.dateOfIncident = Some(IsoDate((clock \div TicksPerDay) * TicksPerDay)),
               !.location = Some([gpsCoordinates |-> Absent, manualAddress |-> Absent]),
               !.reportedBy = Some([name |-> Some(<<>>), email |-> Absent,
                                    contactNumber |-> Absent]),
               !.incidentDescription = Some([whatHappened |-> Some(<<>>)])])

\* set(partial): the fields of partial replace those of the state
set(state, partial) ==
    [f \in DOMAIN state |-> IF f \in DOMAIN partial THEN partial[f] ELSE state[f]]

\* { ...current, ...updates }
merge(current, updates) ==
    Stored(current.id,
           [f \in DOMAIN current.report |->
               IF f \in DOMAIN updates THEN updates[f] ELSE current.report[f]])

\* incidents.findIndex(i => i.id === id), counted from 1; 0 when there is none
findIndex(incidents, id) ==
    IF \E i \in 1..Len(incidents) : incidents[i].id = id
    THEN CHOOSE i \in 1..Len(incidents) :
            /\ incidents[i].id = id
            /\ \A j \in 1..(i - 1) : incidents[j].id # id
    ELSE 0

\* incidents.find(i => i.id === id) || null
find(incidents, id) ==
    IF findIndex(incidents, id) > 0 THEN Some(incidents[findIndex(incidents, id)]) ELSE Absent

\* saveIncident: the list read from storage with the incident replaced or added
withSaved(incidents, inc) ==
    IF findIndex(incidents, inc.id) > 0
    THEN [incidents EXCEPT ![findIndex(incidents, inc.id)] = inc]
    ELSE Append(incidents, inc)

\* deleteIncident: incidents.filter(i => i.id !== id)
withDeleted(incidents, id) == SelectSeq(incidents, LAMBDA i : i.id # id)

\* variant: the incident is saved whatever the validation says
savable_Always(result) == TRUE

\* if (!validation.valid) throw ...: the save goes on only with a valid result
savable(result) == result.valid

\* an operation of the store in flight: what it is (op), which await it is at
\* (stage, pc), its argument (id or incident), the clock at its start, the
\* list it read or is writing (data) and how it ended (outcome, error)
Call(op, stage, at, id, inc) ==
    [op |-> op, stage |-> stage, pc |-> "reading", at |-> at, id |-> id, incident |-> inc,
     data |-> <<>>, outcome |-> "pending", error |-> Absent]

\* throw new Error(message) before anything is awaited
Rejected(op, at, inc, message) ==
    [Call(op, "start", at, Absent, inc) EXCEPT
        !.pc = "done", !.outcome = "rejected", !.error = Some(message)]

\* the fields with which updateCurrentIncident is called
StoreUpdates ==
    {[location |-> Some([gpsCoordinates |-> Absent, manualAddress |-> Some(<<"H", "Q">>)]),
      reportedBy |-> Some([name |-> Some(<<"A", "n", "n">>), email |-> Absent,
                           contactNumber |-> Absent]),
      incidentDescription |-> Some([whatHappened |-> Some(LongText)])],
     [propertyDamageDetails |-> Some(ValidProperty)]}

CoreUnchanged ==
    UNCHANGED <<incident, options, now, prev, last, pc, caller, outputPath, validation,
                pdfModel, doc, artifact, exportResult, response, trace, body>>

CanStart == Len(calls) < MaxCalls

\* createIncident(category)
CreateIncident ==
    /\ store' = set(store, [currentIncident |-> Some(createNewIncident("property_damage", now)),
                            validationResult |-> Absent, error |-> Absent])
    /\ UNCHANGED <<storage, calls>>
    /\ CoreUnchanged

\* updateCurrentIncident(updates)
UpdateCurrentIncident ==
    /\ \E updates \in StoreUpdates :
          store' = IF Has(store.currentIncident)
                   THEN set(store, [currentIncident |->
                                       Some(merge(Get(store.currentIncident), updates))])
                   ELSE store
    /\ UNCHANGED <<storage, calls>>
    /\ CoreUnchanged

\* loadIncidents(), up to await getAllIncidents()
LoadIncidents ==
    /\ CanStart
    /\ store' = set(store, [isLoading |-> TRUE, error |-> Absent])
    /\ calls' = Append(calls, Call("loadIncidents", "load", now, Absent, Absent))
    /\ UNCHANGED storage
    /\ CoreUnchanged

\* loadIncident(id), up to await getIncidentById(id)
LoadIncident ==
    /\ CanStart
    /\ \E id \in 0..MaxNow :
          calls' = Append(calls, Call("loadIncident", "find", now, Some(id), Absent))
    /\ store' = set(store, [isLoading |-> TRUE, error |-> Absent])
    /\ UNCHANGED storage
    /\ CoreUnchanged

\* saveCurrentIncident(), up to await saveToStorage(current) or to its throw
SaveCurrentIncident ==
    /\ CanStart
    /\ LET current == store.currentIncident
           checked == validateIncident(Get(current).report, now)
       IN  IF ~Has(current)
           THEN /\ calls' = Append(calls, Rejected("saveCurrentIncident", now, Absent,
                                                   "No incident to save"))
                /\ UNCHANGED store
           ELSE IF checked.threw
           THEN /\ calls' = Append(calls, Rejected("saveCurrentIncident", now, current,
                                                   "Cannot read properties of undefined"))
                /\ UNCHANGED store
           ELSE IF ~savable(checked)
           THEN /\ calls' = Append(calls, Rejected("saveCurrentIncident", now, current,
                                                   "Incident validation failed"))
                /\ store' = set(store, [validationResult |-> Some(checked)])
           ELSE /\ calls' = Append(calls, Call("saveCurrentIncident", "save", now, Absent,
                                               current))
                /\ store' = set(set(store, [validationResult |-> Some(checked)]),
                                [isLoading |-> TRUE, error |-> Absent])
    /\ UNCHANGED storage
    /\ CoreUnchanged

\* deleteIncident(id), up to await deleteFromStorage(id)
DeleteIncident ==
    /\ CanStart
    /\ \E id \in 0..MaxNow :
          calls' = Append(calls, Call("deleteIncident", "delete", now, Some(id), Absent))
    /\ store' = set(store, [isLoading |-> TRUE, error |-> Absent])
    /\ UNCHANGED storage
    /\ CoreUnchanged

\* AsyncStorage.getItem answers; getAllIncidents returns [] when it fails
GetItem ==
    /\ \E p \in DOMAIN calls :
          /\ calls[p].pc = "reading"
          /\ \E ok \in BOOLEAN :
                calls' = [calls EXCEPT ![p].pc = "read",
                                       ![p].data = IF ok THEN storage ELSE <<>>]
    /\ UNCHANGED <<store, storage>>
    /\ CoreUnchanged

\* AsyncStorage.setItem takes effect or fails
SetItem ==
    /\ \E p \in DOMAIN calls :
          /\ calls[p].pc = "writing"
          /\ \E ok \in BOOLEAN :
                IF ok
                THEN /\ storage' = calls[p].data
                     /\ calls' = [calls EXCEPT ![p].pc = "written"]
                ELSE /\ UNCHANGED storage
                     /\ calls' = [calls EXCEPT ![p].pc = "failed"]
    /\ UNCHANGED store
    /\ CoreUnchanged

\* loadIncidents after await getAllIncidents(): set({ incidents, isLoading: false })
ResumeLoadIncidents ==
    /\ \E p \in DOMAIN calls :
          /\ calls[p].stage = "load" /\ calls[p].pc = "read"
          /\ store' = set(store, [incidents |-> calls[p].data, isLoading |-> FALSE])
          /\ calls' = [calls EXCEPT ![p].pc = "done", ![p].outcome = "resolved"]
    /\ UNCHANGED storage
    /\ CoreUnchanged

\* loadIncident after await getIncidentById(id)
ResumeLoadIncident ==
    /\ \E p \in DOMAIN calls :
          /\ calls[p].stage = "find" /\ calls[p].pc = "read"
          /\ LET found == find(calls[p].data, Get(calls[p].id))
             IN  store' = IF Has(found)
                          THEN set(store, [currentIncident |-> found, isLoading |-> FALSE])
                          ELSE set(store, [error |-> Some("Incident not found"),
                                           isLoading |-> FALSE])
          /\ calls' = [calls EXCEPT ![p].pc = "done", ![p].outcome = "resolved"]
    /\ UNCHANGED storage
    /\ CoreUnchanged

\* saveIncident after await getAllIncidents(): the list is changed and setItem called
ResumeSaveIncident ==
    /\ \E p \in DOMAIN calls :
          /\ calls[p].stage = "save" /\ calls[p].pc = "read"
          /\ calls' = [calls EXCEPT ![p].pc = "writing",
                                    ![p].data = withSaved(@, Get(calls[p].incident))]
    /\ UNCHANGED <<store, storage>>
    /\ CoreUnchanged

\* deleteIncident (storage) after await getAllIncidents()
ResumeDeleteIncident ==
    /\ \E p \in DOMAIN calls :
          /\ calls[p].stage = "delete" /\ calls[p].pc = "read"
          /\ calls' = [calls EXCEPT ![p].pc = "writing",
                                    ![p].data = withDeleted(@, Get(calls[p].id))]
    /\ UNCHANGED <<store, storage>>
    /\ CoreUnchanged

\* saveCurrentIncident / deleteIncident after the write: await get().loadIncidents()
ResumeReload ==
    /\ \E p \in DOMAIN calls :
          /\ calls[p].pc = "written"
          /\ store' = set(store, [isLoading |-> TRUE, error |-> Absent])
          /\ calls' = [calls EXCEPT ![p].pc = "reading", ![p].stage = "reload"]
    /\ UNCHANGED storage
    /\ CoreUnchanged

\* the catch block of saveCurrentIncident / deleteIncident: the write failed
ResumeWriteFailed ==
    /\ \E p \in DOMAIN calls :
          /\ calls[p].pc = "failed"
          /\ store' = set(store, [error |-> Some("setItem failed"), isLoading |-> FALSE])
          /\ calls' = [calls EXCEPT ![p].pc = "done", ![p].outcome = "rejected",
                                    ![p].error = Some("setItem failed")]
    /\ UNCHANGED storage
    /\ CoreUnchanged

\* the inner loadIncidents ends, then set({ isLoading: false }) of the operation
ResumeFinish ==
    /\ \E p \in DOMAIN calls :
          /\ calls[p].stage = "reload" /\ calls[p].pc = "read"
          /\ store' = set(set(store, [incidents |-> calls[p].data, isLoading |-> FALSE]),
                          [isLoading |-> FALSE])
          /\ calls' = [calls EXCEPT ![p].pc = "done", ![p].outcome = "resolved"]
    /\ UNCHANGED storage
    /\ CoreUnchanged

InitStore ==
    /\ incident = BaseIncident
    /\ options = Some(getDefaultPdfOptions(TRUE))
    /\ now = 0
    /\ prev = NoCall
    /\ last = NoCall
    /\ ExportIdle

NextStore ==
    \/ Tick
    \/ CreateIncident
    \/ UpdateCurrentIncident
    \/ LoadIncidents
    \/ LoadIncident
    \/ SaveCurrentIncident
    \/ DeleteIncident
    \/ GetItem
    \/ SetItem
    \/ ResumeLoadIncidents
    \/ ResumeLoadIncident
    \/ ResumeSaveIncident
    \/ ResumeDeleteIncident
    \/ ResumeReload
    \/ ResumeWriteFailed
    \/ ResumeFinish

SpecStore == InitStore /\ [][NextStore]_vars

(***************************************************************************)
(* Vocabulary of the properties.                                           *)
(***************************************************************************)
Calls == {c \in {prev, last} : c.op # "none"}
Returns == {c \in Calls : ~c.result.threw}

FieldsOf(findings) == {findings[i].field : i \in 1..Len(findings)}
CountOn(findings, f) == Cardinality({i \in 1..Len(findings) : findings[i].field = f})

IsCategory(c) == incident.category = Some(c)

\* an optional string that is undefined, empty or only white space
Unset(s) == s = Absent \/ \A i \in 1..Len(Get(s)) : Get(s)[i] = " "

\* C2: validate and validateForExport never throw, whatever is absent from
\* the record.
C2_NeverThrows == \A c \in Calls : ~c.result.threw

\* C3: a vehicle incident with police notified and no reference number gets
\* the finding on vehicleDetails.policeReferenceNumber as a warning, never
\* as a blocking error.
C3_PoliceReferenceIsWarning ==
    \A c \in Returns :
        (/\ IsCategory("vehicle_incident")
         /\ Opt(incident.vehicleDetails, "policeNotified") = Some(TRUE)
         /\ Unset(Opt(incident.vehicleDetails, "policeReferenceNumber")))
        => /\ "vehicleDetails.policeReferenceNumber" \notin FieldsOf(c.result.errors)
           /\ "vehicleDetails.policeReferenceNumber" \in FieldsOf(c.result.warnings)

\* C5: whatever the category, severity severe or fatal without a RIDDOR
\* assessment gives exactly one warning on riddorAssessment, and any other
\* record gives none.
C5_RiddorReminder ==
    \A c \in Returns :
        LET severity == Opt(incident.injuryDetails, "severity")
            serious == severity \in {Some("severe"), Some("fatal")}
        IN  CountOn(c.result.warnings, "riddorAssessment")
              = IF serious /\ ~Has(incident.riddorAssessment) THEN 1 ELSE 0

DateMissing ==
    ~Has(incident.dateOfIncident) \/ Get(incident.dateOfIncident).text = "empty"
DateIsInstant ==
    Has(incident.dateOfIncident) /\ Get(incident.dateOfIncident).text = "iso"
DateInstant == Get(incident.dateOfIncident).instant
LastTickOfDay(t) == ((t \div TicksPerDay) + 1) * TicksPerDay - 1

\* C6 as stated: a blocking error on dateOfIncident iff the date is absent
\* or is an instant strictly after the instant of the call.
C6_ErrorIffAfterNow ==
    \A c \in Returns :
        ("dateOfIncident" \in FieldsOf(c.result.errors))
          <=> (DateMissing \/ (DateIsInstant /\ DateInstant > c.at))

\* C6 amended: a blocking error on dateOfIncident iff the date is absent or
\* is an instant strictly after the end of the calendar day of the call; a
\* date later on the day of the call, or one that denotes no instant, gives
\* no such error.
C6_ErrorIffAfterToday ==
    \A c \in Returns :
        ("dateOfIncident" \in FieldsOf(c.result.errors))
          <=> (DateMissing \/ (DateIsInstant /\ DateInstant > LastTickOfDay(c.at)))

C6_Witness ==
    /\ last.op = "validate"
    /\ ~last.result.threw
    /\ DateIsInstant
    /\ DateInstant > last.at
    /\ DateInstant <= LastTickOfDay(last.at)
    /\ "dateOfIncident" \notin FieldsOf(last.result.errors)

\* C4 as stated: two calls of the same operation on the same record return
\* the same errors and warnings whatever the time of each call.
C4_SameResultAtAnyTime ==
    (prev.op = last.op /\ prev.op # "none") => prev.result = last.result

\* C4 amended: two calls of the same operation on the same record return
\* identical errors and warnings, in the same order, when both calls are
\* made on the same calendar day.
C4_SameResultSameDay ==
    (/\ prev.op = last.op
     /\ prev.op # "none"
     /\ prev.at \div TicksPerDay = last.at \div TicksPerDay)
    => prev.result = last.result

C4_Witness ==
    /\ prev.op = "validate"
    /\ last.op = "validate"
    /\ prev.at # last.at
    /\ prev.at \div TicksPerDay = last.at \div TicksPerDay
    /\ ~last.result.threw
    /\ DateIsInstant
    /\ DateInstant > prev.at
    /\ prev.result = last.result

\* a UK plate once spaces are removed: two letters, two digits, three
\* letters, or one letter, one to three digits, three letters
ValidPlate(reg) ==
    LET p == SelectSeq(reg, LAMBDA c : c # " ")
        n == Len(p)
    IN  /\ n \in 5..7
        /\ \A i \in (n - 2)..n : p[i] \in Letters
        /\ p[1] \in Letters
        /\ \/ n = 7 /\ p[2] \in Letters /\ p[3] \in Digits /\ p[4] \in Digits
           \/ \A i \in 2..(n - 3) : p[i] \in Digits

\* the category-specific required fields: category, field path, whether the
\* field is unset in the record at hand, whether it is set validly
Required(category, path, unset, valid) ==
    [category |-> category, field |-> path, unset |-> unset, valid |-> valid]

RequiredText(category, path, value) ==
    Required(category, path, Unset(value), ~Unset(value))

RequiredFlag(category, path, value) ==
    Required(category, path, value = Absent, value \in {Some(TRUE), Some(FALSE)})

RequiredFields ==
    LET person == incident.personInvolved
        injury == incident.injuryDetails
        damage == incident.propertyDamageDetails
        vehicle == incident.vehicleDetails
        liability == incident.publicLiabilityDetails
        parts == Opt(injury, "bodyPartsAffected")
        reg == Opt(vehicle, "registration")
    IN  {RequiredText("personal_injury", "personInvolved.fullName", Opt(person, "fullName")),
         RequiredText("personal_injury", "injuryDetails.natureOfInjury",
                      Opt(injury, "natureOfInjury")),
         Required("personal_injury", "injuryDetails.severity",
                  Opt(injury, "severity") = Absent,
                  Opt(injury, "severity") \in {Some(v) : v \in Severities}),
         Required("personal_injury", "injuryDetails.bodyPartsAffected",
                  parts \in {Absent, Some(<<>>)}, parts \notin {Absent, Some(<<>>)}),
         Required("personal_injury", "injuryDetails.ppeUsed",
                  Opt(injury, "ppeUsed") = Absent, Opt(injury, "ppeUsed") # Absent),
         RequiredText("property_damage", "propertyDamageDetails.assetDescription",
                      Opt(damage, "assetDescription")),
         RequiredText("property_damage", "propertyDamageDetails.extentOfDamage",
                      Opt(damage, "extentOfDamage")),
         RequiredText("property_damage", "propertyDamageDetails.assetType",
                      Opt(damage, "assetType")),
         RequiredFlag("property_damage", "propertyDamageDetails.urgentRepairRequired",
                      Opt(damage, "urgentRepairRequired")),
         Required("vehicle_incident", "vehicleDetails.registration",
                  Unset(reg), ~Unset(reg) /\ ValidPlate(Get(reg))),
         RequiredText("vehicle_incident", "vehicleDetails.driverName",
                      Opt(vehicle, "driverName")),
         RequiredFlag("vehicle_incident", "vehicleDetails.companyVehicle",
                      Opt(vehicle, "companyVehicle")),
         RequiredFlag("vehicle_incident", "vehicleDetails.policeNotified",
                      Opt(vehicle, "policeNotified")),
         RequiredText("public_liability", "personInvolved.fullName",
                      Opt(person, "fullName")),
         RequiredText("public_liability", "publicLiabilityDetails.reasonForBeingOnSite",
                      Opt(liability, "reasonForBeingOnSite"))}

\* C7: for a record of category C and each required field F of C, the
\* returned errors hold an entry on F when F is unset and none when F is set
\* validly (an explicit false counts as set).
C7_RequiredFields ==
    \A c \in Returns :
        \A r \in RequiredFields :
            IsCategory(r.category)
            => /\ r.unset => r.field \in FieldsOf(c.result.errors)
               /\ r.valid => r.field \notin FieldsOf(c.result.errors)

C7_Witness ==
    /\ last.op = "validate"
    /\ ~last.result.threw
    /\ IsCategory("property_damage")
    /\ Opt(incident.propertyDamageDetails, "urgentRepairRequired") = Some(FALSE)
    /\ Opt(incident.propertyDamageDetails, "assetType") = Absent
    /\ "propertyDamageDetails.assetType" \in FieldsOf(last.result.errors)
    /\ "propertyDamageDetails.urgentRepairRequired" \notin FieldsOf(last.result.errors)

ExportReturns == {c \in Returns : c.op = "validateForExport"}

InvestigationPaths ==
    {"rootCauseAnalysis.directCause", "rootCauseAnalysis.underlyingRootCause",
     "rootCauseAnalysis.wereControlsAdequate", "correctiveActions"}

NoActions == incident.correctiveActions \in {Absent, Some(<<>>)}

\* C8: validateForExport applies the investigation rules exactly when
\* summaryOnly is false: a missing direct cause, underlying root cause or
\* controls assessment, and an absent or empty correctiveActions list, each
\* give a blocking error on their field; with summaryOnly none of them does.
C8_InvestigationRules ==
    \A c \in ExportReturns :
        LET rca == incident.rootCauseAnalysis
            errs == FieldsOf(c.result.errors)
        IN  IF Get(options).summaryOnly
            THEN errs \cap InvestigationPaths = {}
            ELSE /\ Unset(Opt(rca, "directCause"))
                    => "rootCauseAnalysis.directCause" \in errs
                 /\ Unset(Opt(rca, "underlyingRootCause"))
                    => "rootCauseAnalysis.underlyingRootCause" \in errs
                 /\ Opt(rca, "wereControlsAdequate") = Absent
                    => "rootCauseAnalysis.wereControlsAdequate" \in errs
                 /\ NoActions => "correctiveActions" \in errs

\* every other field valid, an empty list, a full export: the one error is
\* the one on correctiveActions
C8_Witness ==
    /\ last.op = "validateForExport"
    /\ ~last.result.threw
    /\ ~Get(options).summaryOnly
    /\ incident.correctiveActions = Some(<<>>)
    /\ FieldsOf(last.result.errors) = {"correctiveActions"}

\* the path of the entry at zero-based index i, written out
EntryPath(i, leaf) ==
    CASE i = 0 -> IF leaf = "description" THEN "correctiveActions[0].description"
                  ELSE "correctiveActions[0].responsiblePerson"
      [] i = 1 -> IF leaf = "description" THEN "correctiveActions[1].description"
                  ELSE "correctiveActions[1].responsiblePerson"
      [] i = 2 -> IF leaf = "description" THEN "correctiveActions[2].description"
                  ELSE "correctiveActions[2].responsiblePerson"
      [] i = 3 -> IF leaf = "description" THEN "correctiveActions[3].description"
                  ELSE "correctiveActions[3].responsiblePerson"
      [] OTHER -> "correctiveActions[?]"

EntryPaths(i) == {EntryPath(i, "description"), EntryPath(i, "responsiblePerson")}

\* C9: in a full export of a record with a non-empty correctiveActions
\* list, errors holds correctiveActions[i].description iff entry i has no
\* description and correctiveActions[i].responsiblePerson iff entry i has
\* no responsible person, and these entries come in ascending order of i.
C9_IndexedPaths ==
    \A c \in ExportReturns :
        (~Get(options).summaryOnly /\ ~NoActions)
        => LET actions == Get(incident.correctiveActions)
               errs == c.result.errors
               Indices == 0..(Len(actions) - 1)
           IN  /\ \A i \in Indices :
                     /\ EntryPath(i, "description") \in FieldsOf(errs)
                          <=> Unset(actions[i + 1].description)
                     /\ EntryPath(i, "responsiblePerson") \in FieldsOf(errs)
                          <=> Unset(actions[i + 1].responsiblePerson)
               /\ \A p \in 1..Len(errs), q \in 1..Len(errs) :
                     \A i \in Indices, j \in Indices :
                        (/\ p < q
                         /\ errs[p].field \in EntryPaths(i)
                         /\ errs[q].field \in EntryPaths(j)) => i <= j
               /\ \A p \in 1..Len(errs) :
                     errs[p].section = "Corrective Actions"
                     => \E i \in Indices : errs[p].field \in EntryPaths(i)

C9_Witness ==
    /\ last.op = "validateForExport"
    /\ ~last.result.threw
    /\ ~Get(options).summaryOnly
    /\ Has(incident.correctiveActions)
    /\ Len(Get(incident.correctiveActions)) = 2
    /\ {"correctiveActions[0].responsiblePerson", "correctiveActions[1].description"}
         \subseteq FieldsOf(last.result.errors)
    /\ "correctiveActions[0].description" \notin FieldsOf(last.result.errors)

HasPhoto ==
    /\ Has(incident.attachments)
    /\ \E i \in 1..Len(Get(incident.attachments)) :
          Get(incident.attachments)[i].type = "photo"

\* C10: validateForExport reports signatures.reporter iff includeSignatures
\* and there is no reporter signature, signatures.investigator iff
\* includeSignatures, a full export and no investigator signature, and
\* attachments iff includePhotos and no attachment of type photo.
C10_FlagRules ==
    \A c \in ExportReturns :
        LET o == Get(options)
            errs == FieldsOf(c.result.errors)
        IN  /\ "signatures.reporter" \in errs
                 <=> (o.includeSignatures /\ Opt(incident.signatures, "reporter") = Absent)
            /\ "signatures.investigator" \in errs
                 <=> (/\ o.includeSignatures
                      /\ ~o.summaryOnly
                      /\ Opt(incident.signatures, "investigator") = Absent)
            /\ "attachments" \in errs <=> (o.includePhotos /\ ~HasPhoto)

C10_Witness ==
    /\ last.op = "validateForExport"
    /\ ~last.result.threw
    /\ Get(options).includeSignatures
    /\ Get(options).includePhotos
    /\ Get(options).summaryOnly
    /\ Has(incident.attachments)
    /\ Len(Get(incident.attachments)) > 0
    /\ ~HasPhoto
    /\ Opt(incident.signatures, "reporter") # Absent
    /\ Opt(incident.signatures, "investigator") = Absent
    /\ FieldsOf(last.result.errors) = {"attachments"}

Occurs(step) == \E i \in 1..Len(trace) : trace[i] = step
Before(a, b) == \E i \in 1..Len(trace), j \in 1..Len(trace) : i < j /\ trace[i] = a /\ trace[j] = b

\* C1: the export maps and renders only after validateForExport returned
\* valid for the record and options at hand; when it returns not valid the
\* export stops, the result is a failure that carries the validation result,
\* and no model, document, buffer or file is produced.
C1_ValidateBeforeMap ==
    /\ (\/ Occurs("map") \/ Occurs("build") \/ Occurs("sink")
        \/ pc \in {"map", "build", "sink"}
        \/ pdfModel # Absent \/ doc # Absent \/ artifact # "none")
       => /\ Before("validate", "map") \/ (pc = "map" /\ Occurs("validate"))
          /\ validation # Absent
          /\ Get(validation).valid
          /\ Get(validation).errors = <<>>
          /\ Get(validation) = validateIncidentForPDF(incident, options, now)
    /\ (validation # Absent /\ Get(validation).errors # <<>>)
       => /\ pc \in {"returned", "responded"}
          /\ ~Occurs("map") /\ ~Occurs("build") /\ ~Occurs("sink")
          /\ pdfModel = Absent /\ doc = Absent /\ artifact = "none"
          /\ exportResult # Absent
          /\ ~Get(exportResult).success
          /\ Get(exportResult).validation = validation
          /\ ~Get(exportResult).buffer
          /\ Get(exportResult).filePath = Absent
          /\ response # Absent
             => /\ Get(response).validation = validation
                /\ ~Get(response).pdf
                /\ Get(response).error # Absent

C1_Witness ==
    /\ pc = "responded"
    /\ validation # Absent
    /\ ~Get(validation).valid
    /\ Get(response).validation = validation
    /\ artifact = "none"

\* the findings that are advisory: malformed email or phone, a witness
\* without statement, no attachments, the RIDDOR reminder
AdvisoryFields ==
    {"reportedBy.email", "reportedBy.contactNumber", "witnesses[0].statement",
     "witnesses[1].statement", "attachments", "riddorAssessment"}

\* C11: in every returned result valid is true exactly when errors is
\* empty, and validate puts none of the advisory findings among the errors,
\* so warnings never turn valid to false.
C11_WarningsNeverBlock ==
    \A c \in Returns :
        /\ c.result.valid <=> c.result.errors = <<>>
        /\ c.op = "validate" => FieldsOf(c.result.errors) \cap AdvisoryFields = {}

C11_Witness ==
    /\ last.op = "validate"
    /\ ~last.result.threw
    /\ last.result.valid
    /\ {"reportedBy.email", "reportedBy.contactNumber", "attachments"}
         \subseteq FieldsOf(last.result.warnings)

\* two digits 00-23, a colon, two digits 00-59
StrictHHmm(s) ==
    /\ Len(s) = 5
    /\ \/ s[1] \in {"0", "1"} /\ s[2] \in Digits
       \/ s[1] = "2" /\ s[2] \in {"0", "1", "2", "3"}
    /\ s[3] = ":"
    /\ s[4] \in {"0", "1", "2", "3", "4", "5"}
    /\ s[5] \in Digits

\* C12: validate reports a blocking error on timeOfIncident unless the value
\* is a two-digit hour 00-23, a colon and a two-digit minute 00-59; a
\* one-digit hour, hour 24 and minute 60 are rejected.
C12_TimePattern ==
    \A c \in Returns :
        "timeOfIncident" \in FieldsOf(c.result.errors)
          <=> ~(Has(incident.timeOfIncident) /\ StrictHHmm(Get(incident.timeOfIncident)))

MapCalls == {c \in {prev, last} : c.op = "map"}
MapReturns == {c \in MapCalls : ~c.result.threw}

\* every row value of the sections and every cell of the table is defined
RowsDefined(section) == \A i \in 1..Len(section.rows) : Has(section.rows[i].value)
CellsDefined(table) ==
    \A i \in 1..Len(table.rows) : \A j \in 1..Len(table.rows[i]) : Has(table.rows[i][j])
AllValuesDefined(model) ==
    /\ \A i \in 1..Len(model.sections) : RowsDefined(model.sections[i])
    /\ Has(model.rootCauseSection) => RowsDefined(Get(model.rootCauseSection))
    /\ Has(model.correctiveActionsSection) => CellsDefined(Get(model.correctiveActionsSection))

\* C13: map never fails: for every record, validated or not, it returns a
\* document model, and no value of the model is left undefined.
C13_MapNeverFails ==
    \A c \in MapCalls : ~c.result.threw /\ AllValuesDefined(c.result)

\* the titles of the sections of a document model, in the order of the model
TitlesOf(sections) == [i \in 1..Len(sections) |-> sections[i].title]
ModelTitles(model) ==
    TitlesOf(model.sections \o model.rootCauseSection \o model.correctiveActionsSection
             \o model.attachmentsSection \o model.signaturesSection)

CategoryTitle(category) ==
    CASE category = Some("personal_injury") -> <<"Injury Details">>
      [] category = Some("property_damage") -> <<"Property Damage Details">>
      [] category = Some("vehicle_incident") -> <<"Vehicle Incident Details">>
      [] category = Some("public_liability") -> <<"Public Liability Details">>
      [] OTHER -> <<>>

FixedOrder(category) ==
    <<"Incident Information", "Reported By", "Person Involved">>
    \o CategoryTitle(category)
    \o <<"Incident Description", "Witness Information", "Root Cause Analysis",
         "Corrective Actions", "Attachments", "Signatures">>

\* a is b with some entries left out
RECURSIVE IsSubsequence(_, _)
IsSubsequence(a, b) ==
    IF a = <<>> THEN TRUE
    ELSE IF b = <<>> THEN FALSE
    ELSE IF Head(a) = Head(b) THEN IsSubsequence(Tail(a), Tail(b))
    ELSE IsSubsequence(a, Tail(b))

C15_AttachmentSection ==
    \A c \in MapReturns :
        Has(c.result.attachmentsSection)
          <=> (/\ Get(options).includeAttachments
               /\ Has(incident.attachments)
               /\ Len(Get(incident.attachments)) > 0)

C15_Witness ==
    /\ last.op = "map"
    /\ ~last.result.threw
    /\ Get(options).summaryOnly
    /\ Get(options).includeAttachments
    /\ Has(last.result.attachmentsSection)
    /\ Len(Get(last.result.attachmentsSection).attachments) = Len(Get(incident.attachments))

\* C16: the model holds the corrective actions table only if summaryOnly is
\* false, includeCorrectiveActions is set and the list has an entry; an
\* absent or empty list gives no table.
C16_TableOnlyWithData ==
    \A c \in MapReturns :
        Has(c.result.correctiveActionsSection)
          => /\ ~Get(options).summaryOnly
             /\ Get(options).includeCorrectiveActions
             /\ Has(incident.correctiveActions)
             /\ Len(Get(incident.correctiveActions)) > 0

\* C17: two calls of map with the same record, the same options and the
\* same clock handed in return identical models.
C17_SameClockSameModel ==
    (prev.op = "map" /\ last.op = "map" /\ prev.clock = last.clock)
    => prev.result = last.result

\* C18: for a record that passed validateForExport with the options, map
\* returns a model in which every row value and table cell is a defined
\* display string.
C18_RowsAreStrings ==
    \A c \in MapCalls :
        validateIncidentForPDF(incident, options, c.at).valid
        => ~c.result.threw /\ AllValuesDefined(c.result)

Placed(kind) == {i \in 1..Len(Get(doc).placed) : Get(doc).placed[i].kind = kind}
PagesOf(d) == 0..(d.pageCount - 1)

\* C19: the two passes run after all the content is placed, add no page
\* and stamp every page held by the renderer: once the passes are over,
\* each page i of the N pages carries exactly one legend and exactly one
\* label "Page i of N", and no pass raises.
C19_EveryPageStamped ==
    /\ (Occurs("footer") \/ Occurs("numbers")) => Get(doc).queue = <<>>
    /\ pc \in {"numbers", "drawn"} =>
          \A p \in PagesOf(Get(doc)) :
              Cardinality({i \in Placed("legend") : Get(doc).placed[i].page = p}) = 1
    /\ pc = "drawn" =>
          \A p \in PagesOf(Get(doc)) :
              Cardinality({i \in Placed("pageLabel") :
                              /\ Get(doc).placed[i].page = p
                              /\ Get(doc).placed[i].number = p + 1
                              /\ Get(doc).placed[i].total = Get(doc).pageCount}) = 1
    /\ pc # "raised"

\* the threshold of the page-break test before a row of the kind
RowThreshold(kind) ==
    IF kind = "row" THEN PAGE_HEIGHT - MARGIN_BOTTOM - 5000
    ELSE PAGE_HEIGHT - MARGIN_BOTTOM - 3000

C21_AttachmentsDrawn ==
    (Has(doc) /\ Has(pdfModel) /\ Has(Get(pdfModel).attachmentsSection)) =>
        \E i \in 1..Len(Get(doc).drawn) :
            /\ Get(doc).drawn[i].title = Get(Get(pdfModel).attachmentsSection).title
            /\ Get(doc).drawn[i] = Get(Get(pdfModel).attachmentsSection)

\* C22: when the sink fails, exportIncidentToPDF resolves to a failure
\* result whose error is the message of the sink failure.
C22_SinkFailureMessage ==
    (pc \in {"returned", "responded"} /\ Occurs("sink") /\ ~Get(exportResult).success) =>
        Get(exportResult).error = Some(SinkFailure)

\* the messages of the exceptions raised inside validation, mapping and
\* rendering
InternalMessages == {"Cannot read properties of undefined", "switchToPage(0) out of bounds"}

\* an exception was raised in one of the steps of the export
RaisedInside ==
    /\ Has(exportResult)
    /\ Get(exportResult).error \in {Some(m) : m \in InternalMessages}

\* C23: when an exception is raised inside validation, mapping or rendering
\* of a request, the response is a generic failure (status 500, a fixed
\* text) and holds no message of an exception.
C23_GenericFailure ==
    (caller = "route" /\ pc = "responded" /\ RaisedInside) =>
        /\ Get(response).status = 500
        /\ Get(response).error \notin {Some(m) : m \in InternalMessages}

\* the space the page-break test of an entry of the kind keeps free above
\* the bottom margin
ReserveOf(kind) ==
    CASE kind = "row" -> 5000
      [] kind = "tableRow" -> 3000
      [] kind = "signature" -> 20000

\* C24: the page-break test is applied before each entry, signature blocks
\* included: no section row is drawn past page height - bottom margin - 50,
\* no table row past page height - bottom margin - 30 and no signature
\* block past page height - bottom margin - 200.
C24_NoEntryPastThreshold ==
    Has(doc) =>
        \A i \in 1..Len(Get(doc).placed) :
            LET item == Get(doc).placed[i]
            IN  item.kind \in {"row", "tableRow", "signature"} =>
                    item.y <= PAGE_HEIGHT - MARGIN_BOTTOM - ReserveOf(item.kind)

\* the sub-record that belongs to the category
OwnSubRecord(category) ==
    CASE category = Some("personal_injury") -> "injuryDetails"
      [] category = Some("property_damage") -> "propertyDamageDetails"
      [] category = Some("vehicle_incident") -> "vehicleDetails"
      [] category = Some("public_liability") -> "publicLiabilityDetails"
      [] OTHER -> "none"

SubRecords == {"injuryDetails", "propertyDamageDetails", "vehicleDetails", "publicLiabilityDetails"}

SubRecordValues(f) ==
    CASE f = "injuryDetails" -> InjuryValues
      [] f = "propertyDamageDetails" -> PropertyValues
      [] f = "vehicleDetails" -> VehicleValues
      [] f = "publicLiabilityDetails" -> LiabilityValues

\* C25: the result of validate depends only on the base fields and on the
\* sub-record of the record's category: with a sub-record of another
\* category added, changed or removed, validate returns the same errors and
\* the same warnings.
C25_ForeignSubRecordIgnored ==
    (last.op = "validate" /\ ~last.result.threw) =>
        \A f \in SubRecords \ {OwnSubRecord(incident.category)} :
            \A v \in SubRecordValues(f) :
                LET other == validateIncident([incident EXCEPT ![f] = v], last.at)
                IN  /\ ~other.threw
                    /\ other.errors = last.result.errors
                    /\ other.warnings = last.result.warnings

\* a is the beginning of b
IsPrefix(a, b) == Len(a) <= Len(b) /\ SubSeq(b, 1, Len(a)) = a

\* C26: validateForExport only adds to validate: the errors of validate on
\* the record are a prefix of the errors of validateForExport on it, the
\* warnings are the same, and a record invalid under validate is invalid
\* under the export profile.
C26_ExportOnlyAdds ==
    \A c \in Returns :
        c.op = "validateForExport" =>
            LET v == validateIncident(incident, c.at)
            IN  /\ ~v.threw
                /\ IsPrefix(v.errors, c.result.errors)
                /\ c.result.warnings = v.warnings
                /\ ~v.valid => ~c.result.valid

\* an export validation that added errors to those of an invalid record
\* that also has warnings
C26_Witness ==
    /\ last.op = "validateForExport"
    /\ ~last.result.threw
    /\ LET v == validateIncident(incident, last.at)
       IN  /\ ~v.threw
           /\ v.errors # <<>>
           /\ v.warnings # <<>>
           /\ Len(last.result.errors) > Len(v.errors)

SaveCalls == {p \in DOMAIN calls : calls[p].op = "saveCurrentIncident"}
DeleteCalls == {p \in DOMAIN calls : calls[p].op = "deleteIncident"}
AllDone == \A p \in DOMAIN calls : calls[p].pc = "done"
InStorage(id) == \E i \in 1..Len(storage) : storage[i].id = id

\* C27: saveCurrentIncident goes on to storage only with a current incident
\* that validateIncident found valid; with no current incident or a failed
\* validation the operation fails with an error, validationResult (when
\* computed) is the failing result, and storage, the incidents list and
\* isLoading are as before.
C27_SaveOnlyAfterValid ==
    /\ [](\A p \in SaveCalls :
             calls[p].stage # "start" =>
                 validateIncident(Get(calls[p].incident).report, calls[p].at).valid)
    /\ [][(Len(calls') = Len(calls) + 1 /\ calls'[Len(calls')].op = "saveCurrentIncident") =>
             LET current == store.currentIncident
                 started == calls'[Len(calls')]
                 result == validateIncident(Get(current).report, now)
             IN  (~Has(current) \/ result.threw \/ ~result.valid) =>
                     /\ started.outcome = "rejected"
                     /\ Has(started.error)
                     /\ storage' = storage
                     /\ store'.incidents = store.incidents
                     /\ store'.isLoading = store.isLoading
                     /\ (Has(current) /\ ~result.threw) =>
                            store'.validationResult = Some(result)]_vars

\* a save refused for a failed validation while an incident is stored
C27_Witness ==
    /\ storage # <<>>
    /\ Has(store.validationResult)
    /\ ~Get(store.validationResult).valid
    /\ \E p \in SaveCalls :
          /\ calls[p].stage = "start"
          /\ calls[p].outcome = "rejected"
          /\ calls[p].error = Some("Incident validation failed")

\* C28: two saves of incidents with distinct ids that overlap lose no
\* update: once all operations are over, both incidents are stored; and a
\* save that overlaps the deletion of another id leaves the saved incident
\* stored and the deleted one absent.
C28_NoLostUpdate ==
    AllDone =>
        /\ \A p, q \in SaveCalls :
              (/\ calls[p].outcome = "resolved"
               /\ calls[q].outcome = "resolved"
               /\ Get(calls[p].incident).id # Get(calls[q].incident).id
               /\ \A d \in DeleteCalls :
                     Get(calls[d].id) \notin {Get(calls[p].incident).id,
                                              Get(calls[q].incident).id})
              => InStorage(Get(calls[p].incident).id) /\ InStorage(Get(calls[q].incident).id)
        /\ \A p \in SaveCalls, d \in DeleteCalls :
              (/\ calls[p].outcome = "resolved"
               /\ calls[d].outcome = "resolved"
               /\ Get(calls[p].incident).id # Get(calls[d].id)
               /\ \A q \in SaveCalls \ {p} : Get(calls[q].incident).id # Get(calls[d].id)
               /\ \A e \in DeleteCalls : Get(calls[e].id) # Get(calls[p].incident).id)
              => InStorage(Get(calls[p].incident).id) /\ ~InStorage(Get(calls[d].id))

\* C29: isLoading is true while an operation awaits storage and false once
\* all operations are over.
C29_LoadingWhileAwaiting ==
    /\ (\E p \in DOMAIN calls : calls[p].pc \in {"reading", "writing"}) => store.isLoading
    /\ (calls # <<>> /\ AllDone) => ~store.isLoading

\* C30: a title is never left alone at the bottom of a page: whatever the
\* cursor at which addSection or addTable is entered, the title and the
\* entry drawn after it (the first row of a section; the header row and the
\* first row of a table) are on the same page.
C30_TitleNotOrphaned ==
    Has(doc) =>
        \A i \in 1..Len(Get(doc).placed) :
            LET placed == Get(doc).placed
            IN  placed[i].kind = "title" =>
                    /\ (i + 1 <= Len(placed) /\ placed[i + 1].kind \in {"row", "tableHeader"})
                           => placed[i + 1].page = placed[i].page
                    /\ (/\ i + 2 <= Len(placed)
                        /\ placed[i + 1].kind = "tableHeader"
                        /\ placed[i + 2].kind = "tableRow")
                           => placed[i + 2].page = placed[i].page

\* a title drawn with the cursor on the threshold of its test, on the page
\* the function was entered on, and its first row drawn after it
C30_Witness ==
    /\ Has(doc)
    /\ Len(Get(doc).placed) >= 2
    /\ Get(doc).placed[1].kind = "title"
    /\ Get(doc).placed[1].cursor = PAGE_HEIGHT - MARGIN_BOTTOM - 10000
    /\ Get(doc).placed[1].page = 0
    /\ Get(doc).placed[2].kind = "row"

====
